---- MODULE Spec2Model ----
(***************************************************************************)
(* radikron: the download orchestrator (Download, handleDuplicate,         *)
(* moveFile, downloadProgram), the rule engine and the scheduling loops    *)
(* (CLI run/runIteration, GUI runMonitoringLoop/processProgram).           *)
(*                                                                         *)
(* Time is counted in minutes.  A time that the layout "yyyyMMddHHmmss"    *)
(* cannot parse is written BadTime.  A nil *time.Time is written NilTime.  *)
(* Folder "" is the default download directory.  The file base name        *)
(* (start time, station, title) is distinct per program of the universe,   *)
(* so a file is named by the ID of its program.                            *)
(*                                                                         *)
(* Spec follows the scheduling loops and Download with the download task   *)
(* as two steps.  SpecShutdown adds the signal handling of cmd/radikron.   *)
(* SpecTask follows downloadProgram and the goroutines of bulkDownload     *)
(* step by step, with the two semaphores and InitSemaphores.  SpecRule     *)
(* evaluates the rule engine on one station and program per behaviour.     *)
(* SpecDownload follows one direct call of Download for a program with     *)
(* well-formed or malformed times.  SpecContent evaluates the content      *)
(* matchers of the rule engine, SpecStations the station filter of         *)
(* processStation, SpecConfig one call of Config.ApplyToAsset.  SpecGui    *)
(* follows the monitoring loop of the GUI together with StopMonitoring.    *)
(***************************************************************************)
EXTENDS Integers, Sequences, FiniteSets, TLC

\* ---------------------------------------------------------------- bounds
MaxTime == 5
MaxExternal == 1
MaxResize == 1
MaxRules == 2

\* ------------------------------------------------------------- constants
Minute == 1
Hour == 60
OneDay == 24
BufferMinutes == 2
MaxRetryAttempts == 2
MaxDownloadingConcurrency == 2
MaxEncodingConcurrency == 1

BadTime == 0 - 1
NilTime == 0 - 1

\* ------------------------------------------------------------- universe
Folders == {"", "a", "b"}
AvailableStations == <<"FMT", "TBS">>

Prog(id, st, title, ft, to) ==
  [ID |-> id, StationID |-> st, Title |-> title, Pfm |-> <<>>, Info |-> <<>>,
   Desc |-> <<>>, Tags |-> <<>>, Ft |-> ft, To |-> to]

P1 == Prog("p1", "FMT", <<"j">>, 1, 2)
P2 == Prog("p2", "FMT", <<"k">>, 4, 5)
P3 == Prog("p3", "TBS", <<"j", "k">>, 5, 6)

\* FetchWeeklyPrograms(stationID): the program list the service returns
WeeklyPrograms(stationID) ==
  IF stationID = "FMT" THEN <<P1, P2>> ELSE <<P3>>

AllProgs == {P1, P2, P3}
ProgIDs == {p.ID : p \in AllProgs}

\* programs with a time field the layout cannot parse: P4 has a malformed
\* start, P5 starts after every time of the model and has a malformed end
P4 == Prog("p4", "FMT", <<"j">>, BadTime, 2)
P5 == Prog("p5", "FMT", <<"j">>, MaxTime + 8, BadTime)
Malformed == {P4, P5}
MalformedIDs == {p.ID : p \in Malformed}

ProgByID(id) == CHOOSE p \in AllProgs \cup Malformed : p.ID = id

Rule(name, title, st, folder) ==
  [Name |-> name, Title |-> title, DoW |-> <<>>, Keyword |-> <<>>, Pfm |-> <<>>,
   StationID |-> st, Window |-> "", Folder |-> folder]

\* the rule lists a configuration file may hold
RuleSets ==
  { <<Rule("ra", <<"j">>, "", "a"), Rule("rb", <<"k">>, "*", "b")>>,
    <<Rule("rd", <<>>, "", "")>>,
    <<Rule("ra", <<"j">>, "FMT", "a"), Rule("rd", <<>>, "", "")>> }

\* ------------------------------------------------------------ rule engine
\* strings.Contains
Contains(s, sub) ==
  \E k \in 0..(Len(s) - Len(sub)) :
    \A j \in 1..Len(sub) : s[k + j] = sub[j]

HasDoW(r) == Len(r.DoW) > 0
HasPfm(r) == r.Pfm # <<>>
HasKeyword(r) == r.Keyword # <<>>
HasStationID(r) == ~(r.StationID = "" \/ r.StationID = "*")
HasTitle(r) == r.Title # <<>>
HasWindow(r) == r.Window # ""

\* time.Weekday of a parsed start time, 0 = Sunday; time 0 is the midnight
\* that begins a Sunday in Location
Weekday(t) == (t \div (OneDay * Hour)) % 7

\* the weekday of the zero time.Time, which a failed parse returns: Monday
ZeroTimeWeekday == 1

\* strings.ToLower on the day strings of the configurations
ToLower(d) ==
  CASE d = "SUN" -> "sun" [] d = "Sat" -> "sat" [] d = "Mon" -> "mon"
    [] OTHER -> d

\* dow[...] (lines 175-183): a key the map does not hold yields the zero
\* value, time.Sunday
DoWCode(d) ==
  CASE d = "sun" -> 0 [] d = "mon" -> 1 [] d = "tue" -> 2 [] d = "wed" -> 3
    [] d = "thu" -> 4 [] d = "fri" -> 5 [] d = "sat" -> 6 [] OTHER -> 0

\* a string the layout cannot parse yields the zero time and an error
ParseInLocation(x) == [ok |-> x # BadTime, t |-> IF x = BadTime THEN 0 ELSE x]

\* time.ParseDuration on the window strings of the configurations, in
\* minutes: "d" is not a unit of time.ParseDuration
ParseDuration(w) ==
  CASE w = "1h" -> [ok |-> TRUE, d |-> Hour]
    [] w = "24h" -> [ok |-> TRUE, d |-> 24 * Hour]
    [] w = "168h" -> [ok |-> TRUE, d |-> 168 * Hour]
    [] OTHER -> [ok |-> FALSE, d |-> 0]

fetchWindowNone(r) == 0

\* the fetch window of a rule (lines 290-294)
fetchWindow(r) ==
  LET pd == ParseDuration(r.Window)
  IN  IF pd.ok THEN pd.d ELSE Hour * OneDay

MatchWindowInclusive(r, ft, cur) ==
  IF ~HasWindow(r) THEN TRUE
  ELSE LET st == ParseInLocation(ft)
       IN IF ~st.ok THEN FALSE
          ELSE ~(st.t + fetchWindow(r) <= cur)

MatchWindow(r, ft, cur) ==
  IF ~HasWindow(r) THEN TRUE
  ELSE LET st == ParseInLocation(ft)
       IN IF ~st.ok THEN FALSE
          ELSE ~(st.t + fetchWindow(r) < cur)

MatchDoW(r, ft) ==
  IF ~HasDoW(r) THEN TRUE
  ELSE LET st == ParseInLocation(ft)
           weekday == IF st.ok THEN Weekday(st.t) ELSE ZeroTimeWeekday
       IN \E k \in 1..Len(r.DoW) : weekday = DoWCode(ToLower(r.DoW[k]))

MatchStationID(r, stationID) ==
  IF ~HasStationID(r) THEN TRUE ELSE r.StationID = stationID

matchPfmStrict(r, pfm) == HasPfm(r) /\ Contains(pfm, r.Pfm)

matchPfm(r, pfm) == IF ~HasPfm(r) THEN TRUE ELSE Contains(pfm, r.Pfm)

matchTitle(r, title) == IF ~HasTitle(r) THEN TRUE ELSE Contains(title, r.Title)

\* matchKeyword that does not look at the tags
matchKeywordNoTags(r, p) ==
  IF ~HasKeyword(r) THEN TRUE
  ELSE \/ Contains(p.Title, r.Keyword)
       \/ Contains(p.Pfm, r.Keyword)
       \/ Contains(p.Info, r.Keyword)
       \/ Contains(p.Desc, r.Keyword)

matchKeyword(r, p) ==
  IF ~HasKeyword(r) THEN TRUE
  ELSE \/ Contains(p.Title, r.Keyword)
       \/ Contains(p.Pfm, r.Keyword)
       \/ Contains(p.Info, r.Keyword)
       \/ Contains(p.Desc, r.Keyword)
       \/ \E k \in 1..Len(p.Tags) : Contains(p.Tags[k], r.Keyword)

Match(r, stationID, p, cur) ==
  /\ MatchWindow(r, p.Ft, cur)
  /\ MatchDoW(r, p.Ft)
  /\ MatchStationID(r, stationID)
  /\ matchPfm(r, p.Pfm) /\ matchTitle(r, p.Title) /\ matchKeyword(r, p)

\* a result of an internal matcher: the boolean and the lines it logged
Logged(ok, lines) == [ok |-> ok, log |-> lines]

Line(suppressLogs, text) == IF suppressLogs THEN <<>> ELSE <<text>>

\* matchPfm with its log line (lines 240-251)
matchPfmLog(r, pfm, suppressLogs) ==
  IF ~HasPfm(r) THEN Logged(TRUE, <<>>)
  ELSE IF Contains(pfm, r.Pfm) THEN Logged(TRUE, Line(suppressLogs, "pfm"))
  ELSE Logged(FALSE, <<>>)

\* matchTitle with its log line (lines 268-279)
matchTitleLog(r, title, suppressLogs) ==
  IF ~HasTitle(r) THEN Logged(TRUE, <<>>)
  ELSE IF Contains(title, r.Title) THEN Logged(TRUE, Line(suppressLogs, "title"))
  ELSE Logged(FALSE, <<>>)

\* the keyword chain that stops after the description
matchKeywordLogNoTags(r, p, suppressLogs) ==
  IF ~HasKeyword(r) THEN Logged(TRUE, <<>>)
  ELSE IF Contains(p.Title, r.Keyword)
  THEN Logged(TRUE, Line(suppressLogs, "keyword in title"))
  ELSE IF Contains(p.Pfm, r.Keyword)
  THEN Logged(TRUE, Line(suppressLogs, "keyword in pfm"))
  ELSE IF Contains(p.Info, r.Keyword)
  THEN Logged(TRUE, Line(suppressLogs, "keyword in info"))
  ELSE IF Contains(p.Desc, r.Keyword)
  THEN Logged(TRUE, Line(suppressLogs, "keyword in desc"))
  ELSE Logged(FALSE, <<>>)

\* matchKeyword with its log line (lines 198-233): the first field that
\* holds the keyword is reported, the tags come last
matchKeywordLog(r, p, suppressLogs) ==
  IF ~HasKeyword(r) THEN Logged(TRUE, <<>>)
  ELSE IF Contains(p.Title, r.Keyword)
  THEN Logged(TRUE, Line(suppressLogs, "keyword in title"))
  ELSE IF Contains(p.Pfm, r.Keyword)
  THEN Logged(TRUE, Line(suppressLogs, "keyword in pfm"))
  ELSE IF Contains(p.Info, r.Keyword)
  THEN Logged(TRUE, Line(suppressLogs, "keyword in info"))
  ELSE IF Contains(p.Desc, r.Keyword)
  THEN Logged(TRUE, Line(suppressLogs, "keyword in desc"))
  ELSE IF \E k \in 1..Len(p.Tags) : Contains(p.Tags[k], r.Keyword)
  THEN Logged(TRUE, Line(suppressLogs, "keyword in tag"))
  ELSE Logged(FALSE, <<>>)

\* the lines MatchWindow logs (lines 285-294); it takes no suppressLogs
windowLines(r, ft) ==
  IF ~HasWindow(r) THEN <<>>
  ELSE IF ~ParseInLocation(ft).ok THEN <<"invalid start time format">>
  ELSE IF ~ParseDuration(r.Window).ok THEN <<"parsing window failed">>
  ELSE <<>>

\* match (lines 122-141) with the lines it logs: the window, the days and
\* the station first, then pfm && title && keyword, each evaluated only when
\* the one before it holds
match(r, stationID, p, cur, suppressLogs) ==
  IF ~MatchWindow(r, p.Ft, cur) THEN Logged(FALSE, windowLines(r, p.Ft))
  ELSE IF ~MatchDoW(r, p.Ft) THEN Logged(FALSE, windowLines(r, p.Ft))
  ELSE IF ~MatchStationID(r, stationID) THEN Logged(FALSE, windowLines(r, p.Ft))
  ELSE LET w == windowLines(r, p.Ft)
           pf == matchPfmLog(r, p.Pfm, suppressLogs)
           ti == matchTitleLog(r, p.Title, suppressLogs)
           kw == matchKeywordLog(r, p, suppressLogs)
       IN IF ~pf.ok THEN Logged(FALSE, w \o pf.log)
          ELSE IF ~ti.ok THEN Logged(FALSE, w \o pf.log \o ti.log)
          ELSE Logged(kw.ok, w \o pf.log \o ti.log \o kw.log)

\* the lines logged by the first n rules of a list
RECURSIVE LinesOf(_, _, _, _, _, _)
LinesOf(rs, n, stationID, p, cur, suppressLogs) ==
  IF n = 0 THEN <<>>
  ELSE LinesOf(rs, n - 1, stationID, p, cur, suppressLogs)
         \o match(rs[n], stationID, p, cur, suppressLogs).log

\* the lines logged by the loop of FindMatch or FindMatchSilent, which ends at
\* the rule found
FindLines(rs, found, stationID, p, cur, suppressLogs) ==
  LinesOf(rs, IF found = 0 THEN Len(rs) ELSE found, stationID, p, cur,
          suppressLogs)

\* MatchSilent (lines 117-119)
MatchSilent(r, stationID, p, cur) == match(r, stationID, p, cur, TRUE).ok

\* FindMatchSilent (lines 69-76): index of the first rule MatchSilent
\* accepts, 0 for nil
FindMatchSilent(rs, stationID, p, cur) ==
  IF \E k \in 1..Len(rs) : MatchSilent(rs[k], stationID, p, cur)
  THEN CHOOSE k \in 1..Len(rs) :
         /\ MatchSilent(rs[k], stationID, p, cur)
         /\ \A j \in 1..(k - 1) : ~MatchSilent(rs[j], stationID, p, cur)
  ELSE 0

FindMatchLast(rs, stationID, p, cur) ==
  IF \E k \in 1..Len(rs) : Match(rs[k], stationID, p, cur)
  THEN CHOOSE k \in 1..Len(rs) :
         /\ Match(rs[k], stationID, p, cur)
         /\ \A j \in (k + 1)..Len(rs) : ~Match(rs[j], stationID, p, cur)
  ELSE 0

\* index of the first matching rule, 0 for nil
FindMatch(rs, stationID, p, cur) ==
  IF \E k \in 1..Len(rs) : Match(rs[k], stationID, p, cur)
  THEN CHOOSE k \in 1..Len(rs) :
         /\ Match(rs[k], stationID, p, cur)
         /\ \A j \in 1..(k - 1) : ~Match(rs[j], stationID, p, cur)
  ELSE 0

HasMatch(rs, stationID, p, cur) ==
  \E k \in 1..Len(rs) : Match(rs[k], stationID, p, cur)

\* HasRuleWithoutStationID that does not know the wildcard
HasRuleWithoutStationIDEmpty(rs) == \E k \in 1..Len(rs) : rs[k].StationID = ""

HasRuleWithoutStationID(rs) == \E k \in 1..Len(rs) : ~HasStationID(rs[k])

HasRuleForStationID(rs, stationID) ==
  \E k \in 1..Len(rs) : rs[k].StationID = stationID

\* ------------------------------------------------------------- filesystem
\* content of a path: "none" when no file is there
Content == {"none", "old", "ext", "new", "small", "partial"}

IsExist(fs, folder, n) == fs[folder][n] # "none"

PutFile(fs, folder, n, c) == [fs EXCEPT ![folder][n] = c]

\* what moveFile can run into: "none" nothing, "rename" os.Rename fails (for
\* instance across filesystems) and the fallback works, "open", "create",
\* "copy", "remove": os.Rename fails and the fallback fails at that call
Faults == {"none", "rename", "open", "create", "copy", "remove"}

\* moveFile that leaves the destination behind when the copy fails
moveFileNoCleanup(fs, ds, source, dest, n, fault) ==
  LET renameOK == fault = "none" /\ IsExist(fs, source, n) /\ dest \in ds
      openOK == fault # "open" /\ IsExist(fs, source, n)
      createOK == fault # "create" /\ dest \in ds
      moved == PutFile(PutFile(fs, dest, n, fs[source][n]), source, n, "none")
  IN IF renameOK THEN [files |-> moved, err |-> "nil"]
     ELSE IF ~openOK THEN [files |-> fs, err |-> "open"]
     ELSE IF ~createOK THEN [files |-> fs, err |-> "create"]
     ELSE IF fault = "copy"
          THEN [files |-> PutFile(fs, dest, n, "partial"), err |-> "copy"]
     ELSE IF fault = "remove"
          THEN [files |-> PutFile(fs, dest, n, "none"), err |-> "remove"]
     ELSE [files |-> moved, err |-> "nil"]

moveFile(fs, ds, source, dest, n, fault) ==
  LET renameOK == fault = "none" /\ IsExist(fs, source, n) /\ dest \in ds
      openOK == fault # "open" /\ IsExist(fs, source, n)
      createOK == fault # "create" /\ dest \in ds
      moved == PutFile(PutFile(fs, dest, n, fs[source][n]), source, n, "none")
  IN IF renameOK THEN [files |-> moved, err |-> "nil"]
     ELSE IF ~openOK THEN [files |-> fs, err |-> "open"]
     ELSE IF ~createOK THEN [files |-> fs, err |-> "create"]
     ELSE IF fault = "copy"
          THEN [files |-> PutFile(fs, dest, n, "none"), err |-> "copy"]
     ELSE IF fault = "remove"
          THEN [files |-> PutFile(fs, dest, n, "none"), err |-> "remove"]
     ELSE [files |-> moved, err |-> "nil"]

collectConfiguredFolders(configuredFolder, rs) ==
  (IF configuredFolder # "" THEN {configuredFolder} ELSE {})
    \cup {rs[k].Folder : k \in {j \in 1..Len(rs) : rs[j].Folder # ""}}

\* the orders in which a range over the map may visit its keys
Orders(S) ==
  {o \in [1..Cardinality(S) -> S] : \A x \in S : \E k \in DOMAIN o : o[k] = x}

\* checkConfiguredFoldersForDuplicate that stops at the first key visited
checkFirstFolderOnly(fs, order, n, target) ==
  IF order # <<>> /\ order[1] # target /\ IsExist(fs, order[1], n)
  THEN [exists |-> TRUE, path |-> order[1]]
  ELSE [exists |-> FALSE, path |-> ""]

checkConfiguredFoldersForDuplicate(fs, order, n, target) ==
  LET hits == {k \in DOMAIN order :
                 order[k] # target /\ IsExist(fs, order[k], n)}
  IN IF hits = {} THEN [exists |-> FALSE, path |-> ""]
     ELSE [exists |-> TRUE,
           path |-> order[CHOOSE k \in hits : \A j \in hits : k <= j]]

\* handleDuplicate up to its decision: "exists" (found in a configured folder),
\* "absent" (not in the default folder), "move", "default" (in the default
\* folder and no configured folder)
duplicateCheck(fs, order, n, configuredFolder) ==
  IF checkConfiguredFoldersForDuplicate(fs, order, n, configuredFolder).exists
  THEN "exists"
  ELSE IF ~IsExist(fs, "", n) THEN "absent"
  ELSE IF configuredFolder # "" THEN "move"
  ELSE "default"

\* handleMoveFromDefaultFolder after moveFile returned an error
moveFailed(fs, n, target, fault) ==
  IF IsExist(fs, target, n)
  THEN [files |-> IF fault = "remove" THEN fs ELSE PutFile(fs, "", n, "none"),
        err |-> "nil", via |-> "appeared"]
  ELSE [files |-> fs, err |-> "error", via |-> "move_failed"]

\* moveDone that does not signal the skip
moveDoneNoSkip(fs, n, target) == [files |-> fs, err |-> "nil", via |-> "moved"]

\* handleMoveFromDefaultFolder after moveFile returned nil
moveDone(fs, n, target) ==
  IF IsExist(fs, target, n)
  THEN [files |-> fs, err |-> "errSkipAfterMove", via |-> "moved"]
  ELSE [files |-> fs, err |-> "nil", via |-> "moved_gone"]

\* moveTargetExists that removes the source file
moveTargetExistsRemoveSource(fs, n) ==
  [files |-> PutFile(fs, "", n, "none"), err |-> "nil", via |-> "keep_both"]

\* handleMoveFromDefaultFolder when the target exists before the move
moveTargetExists(fs, n) == [files |-> fs, err |-> "nil", via |-> "keep_both"]

handleMoveFromDefaultFolder(fs, ds, n, target, fault) ==
  IF IsExist(fs, target, n)
  THEN moveTargetExists(fs, n)
  ELSE LET mv == moveFile(fs, ds, "", target, n, fault)
       IN IF mv.err # "nil" THEN moveFailed(mv.files, n, target, fault)
          ELSE moveDone(mv.files, n, target)

\* handleDuplicate run without interference from other processes
handleDuplicate(fs, ds, n, configuredFolder, rs, order, fault) ==
  LET d == duplicateCheck(fs, order, n, configuredFolder)
  IN IF d = "move"
     THEN handleMoveFromDefaultFolder(fs, ds, n, configuredFolder, fault)
     ELSE [files |-> fs, err |-> "nil", via |-> d]

\* Schedules.HasDuplicate: a program of the same ID is in the list
HasDuplicate(sched, id) == \E k \in 1..Len(sched) : sched[k] = id

\* ------------------------------------------------------------------ state
VARIABLES
  mode,           \* "cli": cmd/radikron run, "gui": App.runMonitoringLoop
  rules,          \* asset.Rules, the rule list of the configuration
  now,            \* the wall clock, time.Now()
  CurrentTime,    \* radikron.CurrentTime
  NextFetchTime,  \* asset.NextFetchTime, NilTime when nil
  Schedules,      \* asset.Schedules, the IDs in insertion order
  files,          \* files[folder][name]: content of the output file
  dirs,           \* the output directories that exist
  wg,             \* the wait group counter
  task,           \* task[id]: the download task of a program
  loop,           \* position of the scheduling loop
  dl,             \* the Download call in progress or just returned
  ext,            \* files created so far by other processes
  cands,          \* history: the wake times proposed in this iteration
  stopped,        \* history: the programs stopped by the time gate or by the
                  \* size validation and not past the gates of Download since
  main,           \* the main goroutine of cmd/radikron
  sem,            \* downloadingSem (sem.d) and encodingSem (sem.e): every
                  \* channel made so far, the last one is the value of the
                  \* package variable
  job,            \* job[t]: downloadProgram followed step by step
  wk,             \* wk[t][k]: the goroutine of bulkDownload for segment k
  rm,             \* a query of the rule engine: station, program and results
  cfg,            \* a call of Config.ApplyToAsset: the configuration and the
                  \* station list of the asset afterwards
  mon             \* App.StopMonitoring and what it shares with the loop

vars == <<mode, rules, now, CurrentTime, NextFetchTime, Schedules, files, dirs,
          wg, task, loop, dl, ext, cands, stopped, main, sem, job, wk, rm, cfg, mon>>

NoCall ==
  [p |-> "", pc |-> "idle", ret |-> "", via |-> "", folder |-> "", hd |-> "",
   fault |-> ""]
NoTask == [pc |-> "idle", folder |-> ""]

\* no query of the rule engine is in progress
NoQuery ==
  [pc |-> "idle", stationID |-> "", p |-> P1, m |-> <<>>, found |-> 0,
   has |-> FALSE, ms |-> <<>>, foundSilent |-> 0, log |-> <<>>,
   logSilent |-> <<>>]

\* no call of ApplyToAsset is in progress
NoConfig ==
  [pc |-> "idle", extra |-> <<>>, ignore |-> <<>>, stations |-> <<>>]

\* StopMonitoring has not been called: stop is its position, cancelled says
\* that monitorCancel was called, passed that the loop was past its check of
\* ctx.Done at that moment, done that monitorDone is closed
NoMon ==
  [stop |-> "idle", cancelled |-> FALSE, passed |-> FALSE, done |-> FALSE]

\* the download tasks followed step by step
TaskIDs == {1, 2}

\* a buffered channel of struct{}: its capacity and the tokens it holds
Chan(c) == [cap |-> c, n |-> 0]

\* the semaphores made at package initialisation (lines 24-28)
InitSem ==
  [d |-> <<Chan(MaxDownloadingConcurrency)>>,
   e |-> <<Chan(MaxEncodingConcurrency)>>]

\* the segment URIs of the playlists: "a/1" and "b/1" differ in the directory
\* part only
Links == {"a/1", "a/2", "b/1"}

\* filepath.Split(link): the directory part and the file name (line 312)
Split(link) ==
  CASE link = "a/1" -> <<"a/", "1">>
    [] link = "a/2" -> <<"a/", "2">>
    [] link = "b/1" -> <<"b/", "1">>

\* the file names of a temporary directory, in lexical order
NameOrder == <<"1", "2">>
Names == {NameOrder[k] : k \in 1..Len(NameOrder)}

\* an empty temporary directory: dir[name] is "none", "partial" or the link
\* whose body the file holds
NoDir == [n \in Names |-> "none"]

\* a goroutine of bulkDownload: g is the channel it sent on while it
\* downloads, the channel it receives from while it is blocked
NewWorker == [pc |-> "acquire", i |-> 0, err |-> "nil", g |-> 0]

NoJob ==
  [pc |-> "idle", list |-> <<>>, format |-> "aac", tmp |-> FALSE, dir |-> NoDir, bulk |-> "", cat |-> <<>>, enc |-> 0,
   werr |-> FALSE, tagged |-> FALSE, saved |-> FALSE, ev |-> <<>>]

\* the output file of a program already broadcast may be anywhere; a program
\* not yet broadcast has no file
InitFiles ==
  {fs \in [Folders -> [ProgIDs -> {"none", "old"}]] :
     \A f \in Folders : \A id \in ProgIDs :
       fs[f][id] # "none" => ProgByID(id).To < P1.To + 1}

InitMain ==
  /\ mode \in {"cli", "gui"}
  /\ rules \in RuleSets
  /\ now = P1.To + 1
  /\ CurrentTime = 0
  /\ NextFetchTime = NilTime
  /\ Schedules = <<>>
  /\ files \in InitFiles
  /\ dirs = {f \in Folders : \E id \in ProgIDs : files[f][id] # "none"}
  /\ wg = 0
  /\ task = [id \in ProgIDs |-> NoTask]
  /\ loop = [pc |-> "top", s |-> 1, i |-> 0, todo |-> {}, processed |-> {},
             fetched |-> {}]
  /\ dl = NoCall
  /\ ext = 0
  /\ cands = {}
  /\ stopped = {}
  /\ main = "running"

Init ==
  /\ InitMain
  /\ sem = InitSem
  /\ job = [t \in TaskIDs |-> NoJob]
  /\ wk = [t \in TaskIDs |-> <<>>]
  /\ rm = NoQuery
  /\ cfg = NoConfig
  /\ mon = NoMon

\* --------------------------------------------------------------- Download
\* the call has returned ret ("nil" or "err") by the exit named via
Returned(c, ret, via) == [c EXCEPT !.pc = "returned", !.ret = ret, !.via = via]

Call(id, folder) == [NoCall EXCEPT !.p = id, !.folder = folder]

\* Gate without the duplicate gate
GateNoDuplicate(p, sched, cur) ==
  LET st == ParseInLocation(p.Ft)
      en == ParseInLocation(p.To)
  IN IF ~st.ok THEN "bad_start"
     ELSE IF st.t > cur THEN (IF ~en.ok THEN "bad_end" ELSE "future")
     ELSE "proceed"

\* Gate that does not look at the end time of a future program
GateEndUnchecked(p, sched, cur) ==
  LET st == ParseInLocation(p.Ft)
  IN IF ~st.ok THEN "bad_start"
     ELSE IF st.t > cur THEN "future"
     ELSE IF HasDuplicate(sched, p.ID) THEN "duplicate"
     ELSE "proceed"

\* the time gate and the duplicate gate of Download (lines 144-175):
\* "bad_start", "bad_end", "future", "duplicate" or "proceed"
Gate(p, sched, cur) ==
  LET st == ParseInLocation(p.Ft)
      en == ParseInLocation(p.To)
  IN IF ~st.ok THEN "bad_start"
     ELSE IF st.t > cur THEN (IF ~en.ok THEN "bad_end" ELSE "future")
     ELSE IF HasDuplicate(sched, p.ID) THEN "duplicate"
     ELSE "proceed"

\* futureFetchTime that keeps any time already set
futureFetchTimeKeep(nft, nextEndTime) ==
  IF nft = NilTime THEN nextEndTime + BufferMinutes * Minute ELSE nft

\* the update of asset.NextFetchTime for a future program (lines 157-161)
futureFetchTime(nft, nextEndTime) ==
  IF nft = NilTime \/ nft > nextEndTime
  THEN nextEndTime + BufferMinutes * Minute
  ELSE nft

\* Download from its entry to the check of the target path (lines 139-205)
DownloadEnter ==
  /\ dl.pc = "call"
  /\ LET p == ProgByID(dl.p)
         g == Gate(p, Schedules, CurrentTime)
     IN IF g = "future"
        THEN /\ NextFetchTime' = futureFetchTime(NextFetchTime, p.To)
             /\ cands' = cands \cup {p.To + BufferMinutes * Minute}
             /\ stopped' = stopped \cup {dl.p}
             /\ dl' = Returned(dl, "nil", g)
             /\ UNCHANGED dirs
        ELSE IF g = "duplicate"
        THEN /\ dl' = Returned(dl, "nil", g)
             /\ UNCHANGED <<NextFetchTime, dirs, cands, stopped>>
        ELSE IF g # "proceed"
        THEN /\ dl' = Returned(dl, "err", g)
             /\ UNCHANGED <<NextFetchTime, dirs, cands, stopped>>
        ELSE \/ /\ dl' = Returned(dl, "err", "setup_dir")
                /\ stopped' = stopped \ {dl.p}
                /\ UNCHANGED <<NextFetchTime, dirs, cands>>
             \/ /\ dirs' = dirs \cup {"", dl.folder}
                /\ stopped' = stopped \ {dl.p}
                /\ UNCHANGED <<NextFetchTime, cands>>
                /\ dl' = IF IsExist(files, dl.folder, dl.p)
                         THEN Returned(dl, "nil", "exists_target")
                         ELSE [dl EXCEPT !.pc = "handleDuplicate"]
  /\ UNCHANGED <<mode, rules, now, CurrentTime, Schedules, files, wg, task,
                 loop, ext>>
  /\ UNCHANGED <<main, sem, job, wk, rm, cfg, mon>>

\* handleDuplicate up to its decision (lines 661-695)
HandleDuplicateCheck ==
  /\ dl.pc = "handleDuplicate"
  /\ \E order \in Orders(collectConfiguredFolders(dl.folder, rules)) :
       LET d == duplicateCheck(files, order, dl.p, dl.folder)
       IN dl' = IF d = "move" THEN [dl EXCEPT !.pc = "movePre"]
                ELSE [dl EXCEPT !.pc = "fetchURI", !.hd = d]
  /\ UNCHANGED <<mode, rules, now, CurrentTime, NextFetchTime, Schedules,
                 files, dirs, wg, task, loop, ext, cands>>
  /\ UNCHANGED <<stopped, main, sem, job, wk, rm, cfg, mon>>

\* handleMoveFromDefaultFolder: the check of the target (lines 625-631)
MovePre ==
  /\ dl.pc = "movePre"
  /\ IF IsExist(files, dl.folder, dl.p)
     THEN LET r == moveTargetExists(files, dl.p)
          IN /\ files' = r.files
             /\ dl' = [dl EXCEPT !.pc = "fetchURI", !.hd = r.via]
     ELSE /\ dl' = [dl EXCEPT !.pc = "moveFile"]
          /\ UNCHANGED files
  /\ UNCHANGED <<mode, rules, now, CurrentTime, NextFetchTime, Schedules,
                 dirs, wg, task, loop, ext, cands>>
  /\ UNCHANGED <<stopped, main, sem, job, wk, rm, cfg, mon>>

\* moveFile and, when it returned nil, the rest of
\* handleMoveFromDefaultFolder (lines 633, 643-649) and of Download (212-215)
MoveFile ==
  /\ dl.pc = "moveFile"
  /\ \E fault \in Faults :
       LET mv == moveFile(files, dirs, "", dl.folder, dl.p, fault)
           r == moveDone(mv.files, dl.p, dl.folder)
       IN /\ files' = mv.files
          /\ dl' = IF mv.err # "nil"
                   THEN [dl EXCEPT !.pc = "moveFailed", !.fault = fault]
                   ELSE IF r.err = "errSkipAfterMove"
                   THEN Returned([dl EXCEPT !.hd = r.via, !.fault = fault],
                                 "nil", "skip_after_move")
                   ELSE [dl EXCEPT !.pc = "fetchURI", !.hd = r.via,
                                   !.fault = fault]
  /\ UNCHANGED <<mode, rules, now, CurrentTime, NextFetchTime, Schedules,
                 dirs, wg, task, loop, ext, cands>>
  /\ UNCHANGED <<stopped, main, sem, job, wk, rm, cfg, mon>>

\* handleMoveFromDefaultFolder after a failed moveFile (lines 634-641) and the
\* error return of Download (lines 216-217)
MoveFailed ==
  /\ dl.pc = "moveFailed"
  /\ LET r == moveFailed(files, dl.p, dl.folder, dl.fault)
     IN /\ files' = r.files
        /\ dl' = IF r.err = "nil"
                 THEN [dl EXCEPT !.pc = "fetchURI", !.hd = r.via]
                 ELSE Returned([dl EXCEPT !.hd = r.via], "err", "handle_duplicate")
  /\ UNCHANGED <<mode, rules, now, CurrentTime, NextFetchTime, Schedules,
                 dirs, wg, task, loop, ext, cands>>
  /\ UNCHANGED <<stopped, main, sem, job, wk, rm, cfg, mon>>

\* timeshiftProgM3U8, wg.Add(1) and go downloadProgram (lines 220-240)
FetchURI ==
  /\ dl.pc = "fetchURI"
  /\ \/ /\ dl' = Returned(dl, "err", "no_playlist")
        /\ UNCHANGED <<wg, task>>
     \/ /\ dl' = Returned(dl, "nil", "started")
        /\ wg' = wg + 1
        /\ task' = [task EXCEPT ![dl.p] = [pc |-> "running", folder |-> dl.folder]]
  /\ UNCHANGED <<mode, rules, now, CurrentTime, NextFetchTime, Schedules,
                 files, dirs, loop, ext, cands>>
  /\ UNCHANGED <<stopped, main, sem, job, wk, rm, cfg, mon>>

\* ---------------------------------------------------------- download task
\* downloadProgram up to writeOutputFile (lines 336-366): the task ends with
\* no output file, or with the part of it a failed or interrupted conversion
\* wrote, or the output file is written, large enough or not
TaskRun(id) ==
  /\ task[id].pc = "running"
  /\ \/ /\ task' = [task EXCEPT ![id] = NoTask]
        /\ wg' = wg - 1
        /\ \/ UNCHANGED files
           \/ files' = PutFile(files, task[id].folder, id, "partial")
     \/ /\ \E c \in {"new", "small"} :
             files' = PutFile(files, task[id].folder, id, c)
        /\ task' = [task EXCEPT ![id].pc = "written"]
        /\ UNCHANGED wg
  /\ UNCHANGED <<mode, rules, now, CurrentTime, NextFetchTime, Schedules,
                 dirs, loop, dl, ext, cands>>
  /\ UNCHANGED <<stopped, main, sem, job, wk, rm, cfg, mon>>

\* TaskValidate of a task that returns without wg.Done
TaskValidateNoDone(id) ==
  /\ task[id].pc = "written"
  /\ IF files[task[id].folder][id] = "small"
     THEN /\ files' = PutFile(files, task[id].folder, id, "none")
          /\ NextFetchTime' = now + BufferMinutes * Minute
          /\ cands' = cands \cup {now + BufferMinutes * Minute}
          /\ stopped' = stopped \cup {id}
     ELSE UNCHANGED <<files, NextFetchTime, cands, stopped>>
  /\ task' = [task EXCEPT ![id] = NoTask]
  /\ UNCHANGED <<mode, rules, now, CurrentTime, Schedules, dirs, loop, dl, ext>>
  /\ UNCHANGED <<main, sem, job, wk, rm, cfg, mon, wg>>

\* validateAndCleanupOutputFile, writeID3Tag and wg.Done (lines 368-380) when
\* os.Stat and os.Remove succeed; JobValidate follows their failures too
TaskValidate(id) ==
  /\ task[id].pc = "written"
  /\ IF files[task[id].folder][id] = "small"
     THEN /\ files' = PutFile(files, task[id].folder, id, "none")
          /\ NextFetchTime' = now + BufferMinutes * Minute
          /\ cands' = cands \cup {now + BufferMinutes * Minute}
          /\ stopped' = stopped \cup {id}
     ELSE UNCHANGED <<files, NextFetchTime, cands, stopped>>
  /\ task' = [task EXCEPT ![id] = NoTask]
  /\ wg' = wg - 1
  /\ UNCHANGED <<mode, rules, now, CurrentTime, Schedules, dirs, loop, dl, ext>>
  /\ UNCHANGED <<main, sem, job, wk, rm, cfg, mon>>

\* ---------------------------------------------------------------- CLI loop
\* Advance that leaves the program loop of the station after one program
AdvanceBreak(l) ==
  IF l.i = 0 /\ 0 < Len(WeeklyPrograms(AvailableStations[l.s]))
  THEN [l EXCEPT !.i = 1]
  ELSE [l EXCEPT !.s = l.s + 1, !.i = 0]

\* the program loop goes on to the next program of the station, and
\* processStations to the next station after the last one (part_009 lines
\* 97-105, 117-119)
Advance(l) ==
  IF l.i < Len(WeeklyPrograms(AvailableStations[l.s]))
  THEN [l EXCEPT !.i = l.i + 1]
  ELSE [l EXCEPT !.s = l.s + 1, !.i = 0]

\* RunTop without the check of the done channel
RunTopNoDone ==
  /\ mode = "cli" /\ loop.pc = "top" /\ now <= MaxTime
  /\ NextFetchTime' = NilTime
  /\ Schedules' = <<>>
  /\ CurrentTime' = now
  /\ loop' = [loop EXCEPT !.pc = "stations", !.s = 1, !.i = 0,
                          !.fetched = {}]
  /\ cands' = {}
  /\ UNCHANGED <<mode, rules, now, files, dirs, wg, task, dl, ext>>
  /\ UNCHANGED <<stopped, main, sem, job, wk, rm, cfg, mon>>

\* run: the done channel is open, a new asset, then reloadConfig (part_009
\* lines 177-196, 51-72)
\* iterations are followed while the clock is within MaxTime
RunTop ==
  /\ mode = "cli" /\ loop.pc = "top" /\ now <= MaxTime
  /\ main = "running"
  /\ NextFetchTime' = NilTime
  /\ Schedules' = <<>>
  /\ CurrentTime' = now
  /\ loop' = [loop EXCEPT !.pc = "stations", !.s = 1, !.i = 0,
                          !.fetched = {}]
  /\ cands' = {}
  /\ UNCHANGED <<mode, rules, now, files, dirs, wg, task, dl, ext>>
  /\ UNCHANGED <<stopped, main, sem, job, wk, rm, cfg, mon>>

\* processStation up to the program loop (part_009 lines 83-94): the station
\* is skipped, or FetchWeeklyPrograms is called (loop.fetched keeps the
\* stations it was called for) and fails or returns the programs
ProcessStation ==
  /\ mode = "cli" /\ loop.pc = "stations" /\ loop.i = 0
  /\ loop.s <= Len(AvailableStations)
  /\ LET stationID == AvailableStations[loop.s]
     IN IF ~HasRuleWithoutStationID(rules)
           /\ ~HasRuleForStationID(rules, stationID)
        THEN loop' = [loop EXCEPT !.s = loop.s + 1]
        ELSE \/ loop' = [loop EXCEPT !.s = loop.s + 1,
                                     !.fetched = @ \cup {loop.s}]
             \/ loop' = [Advance(loop) EXCEPT !.fetched = @ \cup {loop.s}]
  /\ UNCHANGED <<mode, rules, now, CurrentTime, NextFetchTime, Schedules,
                 files, dirs, wg, task, dl, ext, cands>>
  /\ UNCHANGED <<stopped, main, sem, job, wk, rm, cfg, mon>>

\* one round of the program loop of processStation up to the call of
\* Download (part_009 lines 97-101)
ProcessProgram ==
  /\ mode = "cli" /\ loop.pc = "stations" /\ loop.i > 0 /\ dl.pc = "idle"
  /\ LET stationID == AvailableStations[loop.s]
         p == WeeklyPrograms(stationID)[loop.i]
         k == FindMatch(rules, stationID, p, CurrentTime)
     IN IF k = 0
        THEN /\ loop' = Advance(loop)
             /\ UNCHANGED dl
        ELSE /\ dl' = [Call(p.ID, rules[k].Folder) EXCEPT !.pc = "call"]
             /\ UNCHANGED loop
  /\ UNCHANGED <<mode, rules, now, CurrentTime, NextFetchTime, Schedules,
                 files, dirs, wg, task, ext, cands>>
  /\ UNCHANGED <<stopped, main, sem, job, wk, rm, cfg, mon>>

\* Download has returned to processStation
DownloadReturn ==
  /\ mode = "cli" /\ dl.pc = "returned"
  /\ dl' = NoCall
  /\ loop' = Advance(loop)
  /\ UNCHANGED <<mode, rules, now, CurrentTime, NextFetchTime, Schedules,
                 files, dirs, wg, task, ext, cands>>
  /\ UNCHANGED <<stopped, main, sem, job, wk, rm, cfg, mon>>

\* setNextFetchTime that overwrites a time already set
setNextFetchTimeAlways(nft, currentTime) == currentTime + OneDay * Hour

setNextFetchTime(nft, currentTime) ==
  IF nft = NilTime THEN currentTime + OneDay * Hour ELSE nft

\* WaitAll without wg.Wait
WaitAllNoWait ==
  /\ mode = "cli" /\ loop.pc = "stations" /\ loop.s > Len(AvailableStations)
  /\ NextFetchTime' = setNextFetchTime(NextFetchTime, now)
  /\ loop' = [loop EXCEPT !.pc = "sleep"]
  /\ UNCHANGED <<mode, rules, now, CurrentTime, Schedules, files, dirs, wg,
                 task, dl, ext, cands>>
  /\ UNCHANGED <<stopped, main, sem, job, wk, rm, cfg, mon>>

\* runIteration: wg.Wait and setNextFetchTime (part_009 lines 154-161)
WaitAll ==
  /\ mode = "cli" /\ loop.pc = "stations" /\ loop.s > Len(AvailableStations)
  /\ wg = 0
  /\ NextFetchTime' = setNextFetchTime(NextFetchTime, now)
  /\ loop' = [loop EXCEPT !.pc = "sleep"]
  /\ UNCHANGED <<mode, rules, now, CurrentTime, Schedules, files, dirs, wg,
                 task, dl, ext, cands>>
  /\ UNCHANGED <<stopped, main, sem, job, wk, rm, cfg, mon>>

\* run: the timer set to NextFetchTime fires (part_009 lines 198-209); with
\* the done channel closed the timer case is taken only if the timer is due
Sleep ==
  /\ mode = "cli" /\ loop.pc = "sleep"
  /\ main = "running" \/ NextFetchTime <= now
  /\ now' = IF now < NextFetchTime THEN NextFetchTime ELSE now
  /\ loop' = [loop EXCEPT !.pc = "top"]
  /\ UNCHANGED <<mode, rules, CurrentTime, NextFetchTime, Schedules, files,
                 dirs, wg, task, dl, ext, cands>>
  /\ UNCHANGED <<stopped, main, sem, job, wk, rm, cfg, mon>>

\* ---------------------------------------------------------------- GUI loop
\* the stations collectProgramsFromStations does not skip
WatchedStations ==
  {k \in 1..Len(AvailableStations) :
     HasRuleWithoutStationID(rules)
       \/ HasRuleForStationID(rules, AvailableStations[k])}

\* StopMonitoring holds a.mu (app.go lines 194-195) from its first line to
\* its return; a.mu.RLock and a.mu.Lock of the loop wait meanwhile
MuHeld == mon.stop = "waiting"

\* runMonitoringLoop up to collectProgramsFromStations (app.go lines 476-523,
\* 258-293); the asset is kept from one iteration to the next; iterations
\* are followed until one has started after MaxTime
GuiTop ==
  /\ mode = "gui" /\ loop.pc = "top" /\ CurrentTime <= MaxTime
  /\ ~mon.cancelled /\ ~MuHeld
  /\ CurrentTime' = now
  /\ \E fetched \in SUBSET WatchedStations :
       loop' = [loop EXCEPT
                  !.pc = "programs", !.processed = {},
                  !.fetched = WatchedStations,
                  !.todo = UNION {{WeeklyPrograms(AvailableStations[k])[j].ID :
                                     j \in 1..Len(WeeklyPrograms(AvailableStations[k]))} :
                                  k \in fetched}]
  /\ cands' = {}
  /\ UNCHANGED <<mode, rules, now, NextFetchTime, Schedules, files, dirs, wg,
                 task, dl, ext>>
  /\ UNCHANGED <<stopped, main, sem, job, wk, rm, cfg, mon>>

\* RemoveFirst that removes nothing
RemoveNone(sched, id) == sched

\* Schedules without the first entry of the given ID
RemoveFirst(sched, id) ==
  IF ~HasDuplicate(sched, id) THEN sched
  ELSE LET k == CHOOSE i \in 1..Len(sched) :
                  sched[i] = id /\ \A j \in 1..(i - 1) : sched[j] # id
       IN SubSeq(sched, 1, k - 1) \o SubSeq(sched, k + 1, Len(sched))

\* processProgram up to the call of Download (app.go lines 297-361); the
\* program list comes from a map, so the programs are taken in any order
GuiProcessProgram ==
  /\ mode = "gui" /\ loop.pc = "programs" /\ dl.pc = "idle"
  /\ ~MuHeld
  /\ \E id \in loop.todo :
       LET p == ProgByID(id)
           k == FindMatch(rules, p.StationID, p, CurrentTime)
           rest == [loop EXCEPT !.todo = loop.todo \ {id}]
       IN IF id \in loop.processed \/ HasDuplicate(Schedules, id)
          THEN /\ loop' = rest
               /\ UNCHANGED <<Schedules, dl>>
          ELSE IF k = 0
          THEN /\ Schedules' = RemoveFirst(Append(Schedules, id), id)
               /\ loop' = rest
               /\ UNCHANGED dl
          ELSE /\ Schedules' = Append(Schedules, id)
               /\ loop' = [rest EXCEPT !.processed = loop.processed \cup {id}]
               /\ dl' = [Call(id, rules[k].Folder) EXCEPT !.pc = "call"]
  /\ UNCHANGED <<mode, rules, now, CurrentTime, NextFetchTime, files, dirs, wg,
                 task, ext, cands>>
  /\ UNCHANGED <<stopped, main, sem, job, wk, rm, cfg, mon>>

\* Download has returned to processProgram
GuiDownloadReturn ==
  /\ mode = "gui" /\ dl.pc = "returned"
  /\ dl' = NoCall
  /\ UNCHANGED <<mode, rules, now, CurrentTime, NextFetchTime, Schedules,
                 files, dirs, wg, task, loop, ext, cands>>
  /\ UNCHANGED <<stopped, main, sem, job, wk, rm, cfg, mon>>

\* logAndSleepUntilNextFetch and sleepUntilNextFetch (app.go lines 425-453)
GuiSleep ==
  /\ mode = "gui" /\ loop.pc = "programs" /\ loop.todo = {} /\ dl.pc = "idle"
  /\ ~MuHeld
  /\ now' = IF NextFetchTime = NilTime THEN now + 1 * Hour
            ELSE IF NextFetchTime > now THEN NextFetchTime
            ELSE now
  /\ loop' = [loop EXCEPT !.pc = "top"]
  /\ UNCHANGED <<mode, rules, CurrentTime, NextFetchTime, Schedules, files,
                 dirs, wg, task, dl, ext, cands>>
  /\ UNCHANGED <<stopped, main, sem, job, wk, rm, cfg, mon>>

\* ------------------------------------------------------------- environment
\* another process creates the output file of the program being placed
ExternalCreate ==
  /\ dl.pc \in {"handleDuplicate", "movePre", "moveFile", "moveFailed"}
  /\ ext < MaxExternal
  /\ dl.folder \in dirs
  /\ ~IsExist(files, dl.folder, dl.p)
  /\ files' = PutFile(files, dl.folder, dl.p, "ext")
  /\ ext' = ext + 1
  /\ UNCHANGED <<mode, rules, now, CurrentTime, NextFetchTime, Schedules,
                 dirs, wg, task, loop, dl, cands>>
  /\ UNCHANGED <<stopped, main, sem, job, wk, rm, cfg, mon>>

\* the wall clock advances
Tick ==
  /\ now < MaxTime
  /\ now' = now + 1
  /\ UNCHANGED <<mode, rules, CurrentTime, NextFetchTime, Schedules, files,
                 dirs, wg, task, loop, dl, ext, cands>>
  /\ UNCHANGED <<stopped, main, sem, job, wk, rm, cfg, mon>>

Next ==
  \/ RunTop
  \/ ProcessStation
  \/ ProcessProgram
  \/ DownloadEnter
  \/ DownloadReturn
  \/ HandleDuplicateCheck
  \/ MovePre
  \/ MoveFile
  \/ MoveFailed
  \/ FetchURI
  \/ WaitAll
  \/ Sleep
  \/ GuiTop
  \/ GuiProcessProgram
  \/ GuiDownloadReturn
  \/ GuiSleep
  \/ \E id \in ProgIDs : TaskRun(id)
  \/ \E id \in ProgIDs : TaskValidate(id)
  \/ ExternalCreate
  \/ Tick

Spec == Init /\ [][Next]_vars

\* ---------------------------------------------------------------- shutdown
\* main: a signal arrives and done is closed (part_009 lines 261-263)
Signal ==
  /\ mode = "cli" /\ main = "running"
  /\ main' = "signalled"
  /\ UNCHANGED <<mode, rules, now, CurrentTime, NextFetchTime, Schedules,
                 files, dirs, wg, task, loop, dl, ext, cands>>
  /\ UNCHANGED <<stopped, sem, job, wk, rm, cfg, mon>>

\* main: wg.Wait returns (part_009 lines 265-268)
MainWait ==
  /\ main = "signalled" /\ wg = 0
  /\ main' = "waited"
  /\ UNCHANGED <<mode, rules, now, CurrentTime, NextFetchTime, Schedules,
                 files, dirs, wg, task, loop, dl, ext, cands>>
  /\ UNCHANGED <<stopped, sem, job, wk, rm, cfg, mon>>

\* run returns: done is closed at the top of the loop or during the sleep
\* (part_009 lines 178-182, 203-206)
RunExit ==
  /\ mode = "cli" /\ loop.pc \in {"top", "sleep"}
  /\ main # "running"
  /\ loop' = [loop EXCEPT !.pc = "exit"]
  /\ UNCHANGED <<mode, rules, now, CurrentTime, NextFetchTime, Schedules,
                 files, dirs, wg, task, dl, ext, cands>>
  /\ UNCHANGED <<stopped, main, sem, job, wk, rm, cfg, mon>>

\* the CLI started on an empty download directory
InitShutdown ==
  /\ Init
  /\ mode = "cli"
  /\ \A f \in Folders : \A id \in ProgIDs : files[f][id] = "none"

NextShutdown ==
  \/ RunTop
  \/ ProcessStation
  \/ ProcessProgram
  \/ DownloadEnter
  \/ DownloadReturn
  \/ HandleDuplicateCheck
  \/ FetchURI
  \/ WaitAll
  \/ Sleep
  \/ \E id \in ProgIDs : TaskRun(id)
  \/ \E id \in ProgIDs : TaskValidate(id)
  \/ Tick
  \/ Signal
  \/ MainWait
  \/ RunExit

SpecShutdown == InitShutdown /\ [][NextShutdown]_vars

\* ------------------------------------------ downloadProgram, step by step
\* the concurrency settings a configuration may carry; 0 selects the default
Configs == {[d |-> 0, e |-> 0], [d |-> 1, e |-> 2]}

\* the playlists getChunklistFromM3U8 may return for the program of a task
Playlists(t) ==
  IF t = 1 THEN {<<>>, <<"a/1", "a/2">>, <<"a/1", "b/1">>}
  ELSE {<<"a/1">>}

\* output.AudioFormat() of a task
Formats(t) == IF t = 1 THEN {"aac", "mp3"} ELSE {"mp3"}

ProgOf(t) == IF t = 1 THEN "p1" ELSE "p2"

\* the value of the package variable
Cur(s) == s[Len(s)]

\* the goroutines of a task read downloadingSem and encodingSem without
\* holding semMu: each send and each receive reads the package variable
\* anew and gets the channel that is current at that moment
Read(s) == Len(s)

CanSendAlways(c) == TRUE

\* a send on a buffered channel proceeds when the buffer has room
CanSend(c) == c.n < c.cap

Send(s, g) == [s EXCEPT ![g].n = @ + 1]
Recv(s, g) == [s EXCEPT ![g].n = @ - 1]

recreate(s, c) == IF Cur(s).cap # c THEN Append(s, Chan(c)) ELSE s

\* InitSemaphores (lines 103-128)
InitSemaphores(s, maxDownloading, maxEncoding) ==
  LET maxDownloadingConcurrency ==
        IF maxDownloading <= 0 THEN MaxDownloadingConcurrency
        ELSE maxDownloading
      maxEncodingConcurrency ==
        IF maxEncoding <= 0 THEN MaxEncodingConcurrency ELSE maxEncoding
  IN  [d |-> recreate(s.d, maxDownloadingConcurrency),
       e |-> recreate(s.e, maxEncodingConcurrency)]

\* a configuration is applied while tasks may be in flight
Reconfigure ==
  /\ \E asset \in Configs :
       LET s == InitSemaphores(sem, asset.d, asset.e) IN
         /\ Len(s.d) <= MaxResize + 1
         /\ Len(s.e) <= MaxResize + 1
         /\ sem' = s
  /\ UNCHANGED <<mode, rules, now, CurrentTime, NextFetchTime, Schedules,
                 files, dirs, wg, task, loop, dl, ext, cands>>
  /\ UNCHANGED <<stopped, main, job, wk, rm, cfg, mon>>

\* Download starts the task: emitDownloadStarted, wg.Add(1) and
\* go downloadProgram (lines 236-239)
StartTask(t) ==
  /\ job[t].pc = "idle"
  /\ \E f \in Formats(t) :
       job' = [job EXCEPT ![t] =
                 [NoJob EXCEPT !.pc = "chunklist", !.format = f,
                               !.ev = <<"DownloadStarted">>]]
  /\ wg' = wg + 1
  /\ task' = [task EXCEPT ![ProgOf(t)] = [pc |-> "running", folder |-> ""]]
  /\ UNCHANGED <<mode, rules, now, CurrentTime, NextFetchTime, Schedules,
                 files, dirs, loop, dl, ext, cands>>
  /\ UNCHANGED <<stopped, main, sem, wk, rm, cfg, mon>>

\* what is left of a task that returned: how bulkDownload ended, whether
\* writeOutputFile failed, whether the output file was tagged and reported
\* saved, and the events emitted
Outcome(j) ==
  [NoJob EXCEPT !.pc = "done", !.bulk = j.bulk, !.werr = j.werr,
                !.tagged = j.tagged, !.saved = j.saved, !.ev = j.ev]

endJobKeepDir(j) == [Outcome(j) EXCEPT !.tmp = j.tmp, !.dir = j.dir]

\* the deferred calls of downloadProgram: os.RemoveAll(aacDir) when the
\* directory was made (line 347), then wg.Done (line 334)
endJob(j) == Outcome(j)

Finish(t, j) ==
  /\ job' = [job EXCEPT ![t] = endJob(j)]
  /\ wg' = wg - 1
  /\ task' = [task EXCEPT ![ProgOf(t)] = NoTask]

Continue(t, j) ==
  /\ job' = [job EXCEPT ![t] = j]
  /\ UNCHANGED <<wg, task>>

\* getChunklistFromM3U8 (lines 337-341)
JobChunklist(t) ==
  /\ job[t].pc = "chunklist"
  /\ \/ \E l \in Playlists(t) :
          Continue(t, [job[t] EXCEPT !.list = l, !.pc = "tempdir"])
     \/ Finish(t, job[t])
  /\ UNCHANGED <<mode, rules, now, CurrentTime, NextFetchTime, Schedules,
                 files, dirs, loop, dl, ext, cands>>
  /\ UNCHANGED <<stopped, main, sem, wk, rm, cfg, mon>>

\* tempAACDir (lines 343-347, 716-733), then bulkDownload starts one
\* goroutine per link (lines 271-291)
JobTempDir(t) ==
  /\ job[t].pc = "tempdir"
  /\ \/ /\ Continue(t, [job[t] EXCEPT !.tmp = TRUE, !.pc = "wait"])
        /\ wk' = [wk EXCEPT ![t] = [k \in 1..Len(job[t].list) |-> NewWorker]]
     \/ /\ Finish(t, job[t])
        /\ UNCHANGED wk
  /\ UNCHANGED <<mode, rules, now, CurrentTime, NextFetchTime, Schedules,
                 files, dirs, loop, dl, ext, cands>>
  /\ UNCHANGED <<stopped, main, sem, rm, cfg, mon>>

\* downloadingSem <- struct{}{} (line 276)
WkAcquire(t, k) ==
  /\ job[t].pc = "wait"
  /\ k \in 1..Len(wk[t])
  /\ wk[t][k].pc = "acquire"
  /\ LET g == Read(sem.d) IN
       /\ CanSend(sem.d[g])
       /\ sem' = [sem EXCEPT !.d = Send(@, g)]
       /\ wk' = [wk EXCEPT ![t][k] = [@ EXCEPT !.pc = "load", !.g = g]]
  /\ UNCHANGED <<mode, rules, now, CurrentTime, NextFetchTime, Schedules,
                 files, dirs, wg, task, loop, dl, ext, cands>>
  /\ UNCHANGED <<stopped, main, job, rm, cfg, mon>>

\* downloadLink (lines 305-323): http.Get or os.Create fails and no file is
\* written, io.Copy fails and a partial file is left, or the file holds the
\* body of the link
downloadLink(dir, link, outcome) ==
  LET fileName == Split(link)[2] IN
    IF outcome = "nil" THEN [dir EXCEPT ![fileName] = link]
    ELSE IF outcome = "copy" THEN [dir EXCEPT ![fileName] = "partial"]
    ELSE dir

retryAlways(err, i) == i < MaxRetryAttempts

\* the loop of the goroutine goes round again (lines 275-282)
retryAgain(err, i) == err # "nil" /\ i < MaxRetryAttempts

\* the end of an attempt: i++ and the loop condition, or the break
afterAttempt(w) ==
  [w EXCEPT !.i = w.i + 1, !.g = 0,
            !.pc = IF retryAgain(w.err, w.i + 1) THEN "acquire" ELSE "done"]

\* err = downloadLink(link, output); <-downloadingSem (lines 277-278): the
\* receive blocks when the channel it reads holds no token
WkLoad(t, k) ==
  /\ k \in 1..Len(wk[t])
  /\ wk[t][k].pc = "load"
  /\ \E outcome \in {"nil", "get", "copy"} :
       LET g == Read(sem.d)
           w == [wk[t][k] EXCEPT !.err = IF outcome = "nil" THEN "nil" ELSE "err"]
       IN  /\ job' = [job EXCEPT ![t].dir =
                        downloadLink(@, job[t].list[k], outcome)]
           /\ IF sem.d[g].n > 0
              THEN /\ sem' = [sem EXCEPT !.d = Recv(@, g)]
                   /\ wk' = [wk EXCEPT ![t][k] = afterAttempt(w)]
              ELSE /\ wk' = [wk EXCEPT ![t][k] = [w EXCEPT !.pc = "blocked", !.g = g]]
                   /\ UNCHANGED sem
  /\ UNCHANGED <<mode, rules, now, CurrentTime, NextFetchTime, Schedules,
                 files, dirs, wg, task, loop, dl, ext, cands>>
  /\ UNCHANGED <<stopped, main, rm, cfg, mon>>

\* a blocked receive proceeds when another goroutine sends on the channel
WkWake(t, k) ==
  /\ k \in 1..Len(wk[t])
  /\ wk[t][k].pc = "blocked"
  /\ sem.d[wk[t][k].g].n > 0
  /\ sem' = [sem EXCEPT !.d = Recv(@, wk[t][k].g)]
  /\ wk' = [wk EXCEPT ![t][k] = afterAttempt(wk[t][k])]
  /\ UNCHANGED <<mode, rules, now, CurrentTime, NextFetchTime, Schedules,
                 files, dirs, wg, task, loop, dl, ext, cands>>
  /\ UNCHANGED <<stopped, main, job, rm, cfg, mon>>

\* errFlag (lines 283-288, 294-296)
hasError(ws) == \E k \in 1..Len(ws) : ws[k].err # "nil"

\* the files of the directory joined in the order of their names
ConcatAACFilesFromList(dir) ==
  LET present == SelectSeq(NameOrder, LAMBDA n : dir[n] # "none")
  IN  [k \in 1..Len(present) |-> dir[present[k]]]

\* emitDownloadCompleted (line 355)
emitDownloadCompleted(j) == [j EXCEPT !.ev = Append(@, "DownloadCompleted")]

\* wg.Wait returns and bulkDownload returns (lines 292-302, 349-352), then
\* emitDownloadCompleted and radigo.ConcatAACFilesFromList (lines 354-361)
JobBulkEnd(t) ==
  /\ job[t].pc = "wait"
  /\ \A k \in 1..Len(wk[t]) : wk[t][k].pc = "done"
  /\ IF hasError(wk[t])
     THEN Finish(t, [job[t] EXCEPT !.bulk = "lack of aac files"])
     ELSE \/ Continue(t, [emitDownloadCompleted(job[t]) EXCEPT
                            !.bulk = "nil",
                            !.cat = ConcatAACFilesFromList(job[t].dir),
                            !.pc = "write"])
          \/ Finish(t, [emitDownloadCompleted(job[t]) EXCEPT !.bulk = "nil"])
  /\ wk' = [wk EXCEPT ![t] = <<>>]
  /\ UNCHANGED <<mode, rules, now, CurrentTime, NextFetchTime, Schedules,
                 files, dirs, loop, dl, ext, cands>>
  /\ UNCHANGED <<stopped, main, sem, rm, cfg, mon>>

\* writeOutputFile (lines 384-401): os.Rename for AAC; for MP3 the send on
\* encodingSem and emitEncodingStarted
JobWrite(t) ==
  /\ job[t].pc = "write"
  /\ IF job[t].format = "aac"
     THEN /\ \/ /\ \E c \in {"new", "small"} :
                     files' = PutFile(files, "", ProgOf(t), c)
                /\ Continue(t, [job[t] EXCEPT !.pc = "validate"])
             \/ /\ UNCHANGED files
                /\ Finish(t, job[t])
          /\ UNCHANGED sem
     ELSE /\ CanSend(sem.e[Read(sem.e)])
          /\ sem' = [sem EXCEPT !.e = Send(@, Read(sem.e))]
          /\ Continue(t, [job[t] EXCEPT !.pc = "encoding",
                                        !.enc = Read(sem.e),
                                        !.ev = Append(@, "EncodingStarted")])
          /\ UNCHANGED files
  /\ UNCHANGED <<mode, rules, now, CurrentTime, NextFetchTime, Schedules,
                 dirs, loop, dl, ext, cands>>
  /\ UNCHANGED <<stopped, main, wk, rm, cfg, mon>>

\* writeOutputFile returns to downloadProgram (lines 363-366)
afterWrite(t, j) ==
  IF j.werr THEN Finish(t, j) ELSE Continue(t, [j EXCEPT !.pc = "validate"])

\* convertAACtoMP3 (lines 429-461): ffmpeg writes destFile itself. It ends
\* with the whole file, large enough or not; it fails before it made the
\* file (no ffmpeg in PATH, no source); or it fails, or is killed when ctx is
\* cancelled (exec.CommandContext), after it wrote a part of the file, and
\* nothing removes that part
convertAACtoMP3 ==
  {[file |-> "new", err |-> FALSE], [file |-> "small", err |-> FALSE],
   [file |-> "none", err |-> TRUE], [file |-> "partial", err |-> TRUE]}

\* convertAACtoMP3, emitEncodingCompleted when it did not fail, and the
\* deferred <-encodingSem (lines 393-398)
JobEncode(t) ==
  /\ job[t].pc = "encoding"
  /\ \E c \in convertAACtoMP3 :
       LET g == Read(sem.e)
           j == [job[t] EXCEPT
                   !.werr = c.err, !.enc = 0,
                   !.ev = IF c.err THEN @ ELSE Append(@, "EncodingCompleted")]
       IN
         /\ files' = PutFile(files, "", ProgOf(t), c.file)
         /\ IF sem.e[g].n > 0
            THEN /\ sem' = [sem EXCEPT !.e = Recv(@, g)]
                 /\ afterWrite(t, j)
            ELSE /\ Continue(t, [j EXCEPT !.pc = "blocked", !.enc = g])
                 /\ UNCHANGED sem
  /\ UNCHANGED <<mode, rules, now, CurrentTime, NextFetchTime, Schedules,
                 dirs, loop, dl, ext, cands>>
  /\ UNCHANGED <<stopped, main, wk, rm, cfg, mon>>

\* the blocked receive on encodingSem proceeds
JobEncWake(t) ==
  /\ job[t].pc = "blocked"
  /\ sem.e[job[t].enc].n > 0
  /\ sem' = [sem EXCEPT !.e = Recv(@, job[t].enc)]
  /\ afterWrite(t, [job[t] EXCEPT !.enc = 0])
  /\ UNCHANGED <<mode, rules, now, CurrentTime, NextFetchTime, Schedules,
                 files, dirs, loop, dl, ext, cands>>
  /\ UNCHANGED <<stopped, main, wk, rm, cfg, mon>>

\* validateAndCleanupOutputFile (lines 405-426): whether a retry was
\* scheduled and the output file afterwards
validateAndCleanupOutputFile(c, fault) ==
  IF fault = "stat" THEN [shouldRetry |-> FALSE, file |-> c]
  ELSE IF c = "small"
       THEN IF fault = "remove" THEN [shouldRetry |-> FALSE, file |-> c]
            ELSE [shouldRetry |-> TRUE, file |-> "none"]
       ELSE [shouldRetry |-> FALSE, file |-> c]

\* the size check of downloadProgram (lines 368-370), then writeID3Tag and
\* emitFileSaved (lines 372-379)
JobValidate(t) ==
  /\ job[t].pc = "validate"
  /\ \E fault \in {"none", "stat", "remove"} :
       LET v == validateAndCleanupOutputFile(files[""][ProgOf(t)], fault) IN
         /\ files' = PutFile(files, "", ProgOf(t), v.file)
         /\ IF v.shouldRetry
            THEN /\ NextFetchTime' = now + BufferMinutes * Minute
                 /\ cands' = cands \cup {now + BufferMinutes * Minute}
                 /\ stopped' = stopped \cup {ProgOf(t)}
                 /\ Finish(t, job[t])
            ELSE /\ UNCHANGED <<NextFetchTime, cands, stopped>>
                 /\ \/ Finish(t, [job[t] EXCEPT
                                     !.tagged = TRUE, !.saved = TRUE,
                                     !.ev = Append(@, "FileSaved")])
                    \/ Finish(t, job[t])
  /\ UNCHANGED <<mode, rules, now, CurrentTime, Schedules, dirs, loop, dl, ext>>
  /\ UNCHANGED <<main, sem, wk, rm, cfg, mon>>

\* the process with an empty download directory and no task started
InitTask ==
  /\ Init
  /\ mode = "gui"
  /\ rules = <<Rule("rd", <<>>, "", "")>>
  /\ \A f \in Folders : \A id \in ProgIDs : files[f][id] = "none"

NextTask ==
  \/ Reconfigure
  \/ \E t \in TaskIDs : StartTask(t)
  \/ \E t \in TaskIDs : JobChunklist(t)
  \/ \E t \in TaskIDs : JobTempDir(t)
  \/ \E t \in TaskIDs : \E k \in 1..Len(wk[t]) : WkAcquire(t, k)
  \/ \E t \in TaskIDs : \E k \in 1..Len(wk[t]) : WkLoad(t, k)
  \/ \E t \in TaskIDs : \E k \in 1..Len(wk[t]) : WkWake(t, k)
  \/ \E t \in TaskIDs : JobBulkEnd(t)
  \/ \E t \in TaskIDs : JobWrite(t)
  \/ \E t \in TaskIDs : JobEncode(t)
  \/ \E t \in TaskIDs : JobEncWake(t)
  \/ \E t \in TaskIDs : JobValidate(t)

SpecTask == InitTask /\ [][NextTask]_vars

\* ------------------------------------------------------- the rule engine
\* CurrentTime of the queries: the ninth day of the model's calendar
QueryTime == 8 * OneDay * Hour

\* the start times of the programs asked about: unparsable, and around the
\* ends of a one-hour, a 24-hour and a seven-day window
QueryStarts ==
  {BadTime, QueryTime - 7 * OneDay * Hour - 1, QueryTime - 7 * OneDay * Hour,
   QueryTime - OneDay * Hour - 1, QueryTime - OneDay * Hour,
   QueryTime - Hour - 1, QueryTime - Hour, QueryTime + 1}

QueryProgs ==
  {[Prog("q", st, c[1], ft, ft) EXCEPT !.Pfm = c[2]] :
     st \in {"FMT", "TBS"}, ft \in QueryStarts,
     c \in {<<<<"j">>, <<"x">>>>, <<<<"k">>, <<>>>>}}

\* the rules a configuration file may hold
QueryRules ==
  {[Name |-> "r", Title |-> c[1], Keyword |-> c[2], Pfm |-> c[3], DoW |-> d,
    StationID |-> st, Window |-> w, Folder |-> ""] :
     c \in {<<<<>>, <<>>, <<>>>>, <<<<"j">>, <<>>, <<>>>>,
            <<<<>>, <<"k">>, <<>>>>, <<<<>>, <<>>, <<"x">>>>},
     d \in {<<>>, <<"mon">>, <<"SUN">>, <<"xyz">>, <<"Sat", "mon">>},
     st \in {"", "*", "FMT"},
     w \in {"", "1h", "24h", "7d", "abc"}}

\* the rules that may follow the first rule of a list
TailRules == {Rule("rd", <<>>, "", ""), Rule("ra", <<"j">>, "FMT", "a")}

RECURSIVE Tails(_)
Tails(n) ==
  IF n = 0 THEN {<<>>}
  ELSE Tails(n - 1) \cup
       {Append(t, r) : t \in {u \in Tails(n - 1) : Len(u) = n - 1},
                       r \in TailRules}

\* the rule lists of at most MaxRules rules
QueryRuleLists == {<<r>> \o t : r \in QueryRules, t \in Tails(MaxRules - 1)}

\* processStation asks the rule engine about a program (part_009 lines
\* 96-98): Match of every rule, FindMatch and HasMatch
QueryRulesFor ==
  /\ rm.pc = "call"
  /\ rm' = [rm EXCEPT
              !.pc = "done",
              !.m = [k \in 1..Len(rules) |->
                       Match(rules[k], rm.stationID, rm.p, CurrentTime)],
              !.found = FindMatch(rules, rm.stationID, rm.p, CurrentTime),
              !.has = HasMatch(rules, rm.stationID, rm.p, CurrentTime),
              !.ms = [k \in 1..Len(rules) |->
                        MatchSilent(rules[k], rm.stationID, rm.p, CurrentTime)],
              !.foundSilent =
                 FindMatchSilent(rules, rm.stationID, rm.p, CurrentTime),
              !.log =
                 FindLines(rules,
                           FindMatch(rules, rm.stationID, rm.p, CurrentTime),
                           rm.stationID, rm.p, CurrentTime, FALSE),
              !.logSilent =
                 FindLines(rules,
                           FindMatchSilent(rules, rm.stationID, rm.p, CurrentTime),
                           rm.stationID, rm.p, CurrentTime, TRUE)]
  /\ UNCHANGED <<mode, rules, now, CurrentTime, NextFetchTime, Schedules,
                 files, dirs, wg, task, loop, dl, ext, cands>>
  /\ UNCHANGED <<stopped, main, sem, job, wk, cfg, mon>>

\* a configuration and a program of the weekly list
InitRule ==
  /\ mode = "cli"
  /\ rules \in QueryRuleLists
  /\ now = QueryTime
  /\ CurrentTime = QueryTime
  /\ NextFetchTime = NilTime
  /\ Schedules = <<>>
  /\ files = [f \in Folders |-> [id \in ProgIDs |-> "none"]]
  /\ dirs = {}
  /\ wg = 0
  /\ task = [id \in ProgIDs |-> NoTask]
  /\ loop = [pc |-> "stations", s |-> 1, i |-> 1, todo |-> {}, processed |-> {},
             fetched |-> {}]
  /\ dl = NoCall
  /\ ext = 0
  /\ cands = {}
  /\ stopped = {}
  /\ main = "running"
  /\ sem = InitSem
  /\ job = [t \in TaskIDs |-> NoJob]
  /\ wk = [t \in TaskIDs |-> <<>>]
  /\ \E q \in QueryProgs :
       rm = [NoQuery EXCEPT !.pc = "call", !.stationID = q.StationID, !.p = q]
  /\ cfg = NoConfig
  /\ mon = NoMon

NextRule == QueryRulesFor

SpecRule == InitRule /\ [][NextRule]_vars

\* ------------------------------------------------------ the station filter
\* one iteration of processStations for rule lists of every kind: none,
\* wildcards, the stations of the area, other stations

\* the station-id of a rule: unset, the wildcard, a station of the area, one
\* outside, one in another case
RuleStations == {"", "*", "FMT", "TBS", "XYZ", "fmt"}

RECURSIVE StationLists(_)
StationLists(n) ==
  IF n = 0 THEN {<<>>}
  ELSE StationLists(n - 1) \cup
       {Append(t, Rule("r", <<"j">>, st, "")) :
          t \in {u \in StationLists(n - 1) : Len(u) = n - 1},
          st \in RuleStations}

InitStations ==
  /\ mode = "cli"
  /\ rules \in StationLists(MaxRules)
  /\ CurrentTime \in {P1.To + 1, P3.To}
  /\ now = CurrentTime
  /\ NextFetchTime = NilTime
  /\ Schedules = <<>>
  /\ files = [f \in Folders |-> [id \in ProgIDs |-> "none"]]
  /\ dirs = {}
  /\ wg = 0
  /\ task = [id \in ProgIDs |-> NoTask]
  /\ loop = [pc |-> "stations", s |-> 1, i |-> 0, todo |-> {}, processed |-> {},
             fetched |-> {}]
  /\ dl = NoCall
  /\ ext = 0
  /\ cands = {}
  /\ stopped = {}
  /\ main = "running"
  /\ sem = InitSem
  /\ job = [t \in TaskIDs |-> NoJob]
  /\ wk = [t \in TaskIDs |-> <<>>]
  /\ rm = NoQuery
  /\ cfg = NoConfig
  /\ mon = NoMon

NextStations ==
  \/ ProcessStation
  \/ ProcessProgram
  \/ DownloadEnter
  \/ HandleDuplicateCheck
  \/ FetchURI
  \/ DownloadReturn

SpecStations == InitStations /\ [][NextStations]_vars

\* ------------------------------------------------------ the monitoring loop
\* StopMonitoring (app.go lines 193-203): a.mu.Lock and monitorCancel. The
\* loop at the top of an iteration has either not yet come to its check of
\* ctx.Done (lines 477-486) or is past it, on its way to a.mu.RLock of
\* reloadConfigIfNeeded (line 228)
StopCall ==
  /\ mode = "gui" /\ mon.stop = "idle" /\ loop.pc # "exit"
  /\ \E passed \in (IF loop.pc = "top" THEN BOOLEAN ELSE {FALSE}) :
       mon' = [mon EXCEPT !.stop = "waiting", !.cancelled = TRUE,
                          !.passed = passed]
  /\ UNCHANGED <<mode, rules, now, CurrentTime, NextFetchTime, Schedules,
                 files, dirs, wg, task, loop, dl, ext, cands>>
  /\ UNCHANGED <<stopped, main, sem, job, wk, rm, cfg>>

\* StopMonitoring (app.go lines 205-216): <-a.monitorDone, monitorWg.Wait and
\* the deferred a.mu.Unlock
StopReturn ==
  /\ mon.stop = "waiting" /\ mon.done /\ wg = 0
  /\ mon' = [mon EXCEPT !.stop = "returned"]
  /\ UNCHANGED <<mode, rules, now, CurrentTime, NextFetchTime, Schedules,
                 files, dirs, wg, task, loop, dl, ext, cands>>
  /\ UNCHANGED <<stopped, main, sem, job, wk, rm, cfg>>

\* runMonitoringLoop returns at the top of an iteration when ctx is
\* cancelled, and the deferred close(a.monitorDone) runs (app.go lines
\* 457-458, 477-484)
GuiExit ==
  /\ mode = "gui" /\ loop.pc = "top"
  /\ mon.cancelled /\ ~mon.passed
  /\ loop' = [loop EXCEPT !.pc = "exit"]
  /\ mon' = [mon EXCEPT !.done = TRUE]
  /\ UNCHANGED <<mode, rules, now, CurrentTime, NextFetchTime, Schedules,
                 files, dirs, wg, task, dl, ext, cands>>
  /\ UNCHANGED <<stopped, main, sem, job, wk, rm, cfg>>

\* the rule lists of the monitored configuration: one that matches p1 only,
\* one that matches every program, one that matches p2 and p3
GuiRuleSets ==
  { <<Rule("ra", <<"j">>, "FMT", "a")>>,
    <<Rule("rd", <<>>, "", "")>>,
    <<Rule("rb", <<"k">>, "*", "b")>> }

\* StartMonitoring has started the loop (app.go lines 162-182)
InitGui ==
  /\ mode = "gui"
  /\ rules \in GuiRuleSets
  /\ now \in 0..(P1.To + 1)
  /\ CurrentTime = 0
  /\ NextFetchTime = NilTime
  /\ Schedules = <<>>
  /\ files \in InitFiles
  /\ dirs = {f \in Folders : \E id \in ProgIDs : files[f][id] # "none"}
  /\ wg = 0
  /\ task = [id \in ProgIDs |-> NoTask]
  /\ loop = [pc |-> "top", s |-> 1, i |-> 0, todo |-> {}, processed |-> {},
             fetched |-> {}]
  /\ dl = NoCall
  /\ ext = 0
  /\ cands = {}
  /\ stopped = {}
  /\ main = "running"
  /\ sem = InitSem
  /\ job = [t \in TaskIDs |-> NoJob]
  /\ wk = [t \in TaskIDs |-> <<>>]
  /\ rm = NoQuery
  /\ cfg = NoConfig
  /\ mon = NoMon

\* in the monitoring loop Download returns from its time gate or from its
\* duplicate gate, so no step of Download behind the gates and no step of a
\* task is taken
NextGui ==
  \/ GuiTop
  \/ GuiProcessProgram
  \/ DownloadEnter
  \/ GuiDownloadReturn
  \/ GuiSleep
  \/ Tick
  \/ StopCall
  \/ StopReturn
  \/ GuiExit

SpecGui == InitGui /\ [][NextGui]_vars

\* ------------------------------------------------------- the configuration
InSeq(x, q) == \E k \in 1..Len(q) : q[k] = x

\* the stations of the area of the configuration
LoadAvailableStations == AvailableStations

\* Asset.AddExtraStations: the stations not yet in the list are appended
RECURSIVE AddExtraStations(_, _)
AddExtraStations(as, es) ==
  IF es = <<>> THEN as
  ELSE AddExtraStations(IF InSeq(Head(es), as) THEN as
                        ELSE Append(as, Head(es)),
                        Tail(es))

\* Asset.RemoveIgnoreStations: the listed stations are taken out of the list
RemoveIgnoreStations(as, is) == SelectSeq(as, LAMBDA x : ~InSeq(x, is))

\* the loop of ApplyToAsset over the rules (config.go lines 70-84): the
\* station of a rule that is not in the list is added
RECURSIVE addRuleStations(_, _, _)
addRuleStations(as, rs, n) ==
  IF n > Len(rs) THEN as
  ELSE addRuleStations(
         IF HasStationID(rs[n]) /\ ~InSeq(rs[n].StationID, as)
         THEN AddExtraStations(as, <<rs[n].StationID>>)
         ELSE as,
         rs, n + 1)

\* asset.AvailableStations after Config.ApplyToAsset (config.go lines 65-84)
ApplyToAsset(extra, ignore, rs) ==
  addRuleStations(
    RemoveIgnoreStations(AddExtraStations(LoadAvailableStations, extra), ignore),
    rs, 1)

\* Config.ApplyToAsset is called with the configuration loaded
ApplyConfig ==
  /\ cfg.pc = "call"
  /\ cfg' = [cfg EXCEPT !.pc = "done",
                        !.stations = ApplyToAsset(cfg.extra, cfg.ignore, rules)]
  /\ UNCHANGED <<mode, rules, now, CurrentTime, NextFetchTime, Schedules,
                 files, dirs, wg, task, loop, dl, ext, cands>>
  /\ UNCHANGED <<stopped, main, sem, job, wk, rm, mon>>

\* the extra-stations and ignore-stations lists of a configuration file
ExtraLists == {<<>>, <<"MBS">>, <<"MBS", "TBS">>, <<"MBS", "MBS">>}
IgnoreLists == {<<>>, <<"TBS">>, <<"MBS", "TBS">>, <<"ABC">>}

InitConfig ==
  /\ mode = "cli"
  /\ rules \in StationLists(MaxRules)
  /\ now = P1.To + 1
  /\ CurrentTime = 0
  /\ NextFetchTime = NilTime
  /\ Schedules = <<>>
  /\ files = [f \in Folders |-> [id \in ProgIDs |-> "none"]]
  /\ dirs = {}
  /\ wg = 0
  /\ task = [id \in ProgIDs |-> NoTask]
  /\ loop = [pc |-> "top", s |-> 1, i |-> 0, todo |-> {}, processed |-> {},
             fetched |-> {}]
  /\ dl = NoCall
  /\ ext = 0
  /\ cands = {}
  /\ stopped = {}
  /\ main = "running"
  /\ sem = InitSem
  /\ job = [t \in TaskIDs |-> NoJob]
  /\ wk = [t \in TaskIDs |-> <<>>]
  /\ rm = NoQuery
  /\ \E e \in ExtraLists : \E i \in IgnoreLists :
       cfg = [NoConfig EXCEPT !.pc = "call", !.extra = e, !.ignore = i]
  /\ mon = NoMon

NextConfig == ApplyConfig

SpecConfig == InitConfig /\ [][NextConfig]_vars

\* ------------------------------------------------------ the content matchers
\* the programs asked about: the keyword "k" may be in any of the fields
ContentProgs ==
  {[Prog("q", "FMT", ti, QueryTime - Hour, QueryTime) EXCEPT
      !.Pfm = pf, !.Info = inf, !.Desc = de, !.Tags = ta] :
     ti \in {<<"j">>, <<"j", "k">>},
     pf \in {<<>>, <<"k">>, <<"x">>},
     inf \in {<<>>, <<"k">>},
     de \in {<<>>, <<"a", "k">>},
     ta \in {<<>>, <<<<"t">>>>, <<<<"t">>, <<"k", "t">>>>}}

\* rules with a title, a keyword and a pfm, set or unset
ContentRules ==
  {[Name |-> "r", Title |-> ti, Keyword |-> kw, Pfm |-> pf, DoW |-> <<>>,
    StationID |-> st, Window |-> "", Folder |-> ""] :
     ti \in {<<>>, <<"j">>, <<"k", "j">>},
     kw \in {<<>>, <<"k">>, <<"z">>},
     pf \in {<<>>, <<"x">>},
     st \in {"", "TBS"}}

ContentRuleLists == {<<r>> \o t : r \in ContentRules, t \in Tails(MaxRules - 1)}

InitContent ==
  /\ mode = "cli"
  /\ rules \in ContentRuleLists
  /\ now = QueryTime
  /\ CurrentTime = QueryTime
  /\ NextFetchTime = NilTime
  /\ Schedules = <<>>
  /\ files = [f \in Folders |-> [id \in ProgIDs |-> "none"]]
  /\ dirs = {}
  /\ wg = 0
  /\ task = [id \in ProgIDs |-> NoTask]
  /\ loop = [pc |-> "stations", s |-> 1, i |-> 1, todo |-> {}, processed |-> {},
             fetched |-> {}]
  /\ dl = NoCall
  /\ ext = 0
  /\ cands = {}
  /\ stopped = {}
  /\ main = "running"
  /\ sem = InitSem
  /\ job = [t \in TaskIDs |-> NoJob]
  /\ wk = [t \in TaskIDs |-> <<>>]
  /\ \E q \in ContentProgs :
       rm = [NoQuery EXCEPT !.pc = "call", !.stationID = q.StationID, !.p = q]
  /\ cfg = NoConfig
  /\ mon = NoMon

NextContent == QueryRulesFor

SpecContent == InitContent /\ [][NextContent]_vars

\* ------------------------------------------------- Download called directly
\* Download is called once, as the tests call it, for any program, with
\* well-formed or malformed times, in any state of the session

\* the values of CurrentTime of the calls: after P1 only, and after P3 began
CallTimes == {P1.To + 1, P3.To}

\* the output files that may exist at time cur
FilesAt(cur) ==
  {fs \in [Folders -> [ProgIDs -> {"none", "old"}]] :
     \A f \in Folders : \A id \in ProgIDs :
       fs[f][id] # "none" => ProgByID(id).To < cur}

InitDownload ==
  /\ mode = "cli"
  /\ rules \in RuleSets
  /\ CurrentTime \in CallTimes
  /\ now = CurrentTime
  /\ NextFetchTime \in {NilTime, P2.To + BufferMinutes * Minute, MaxTime + 8}
  /\ Schedules \in {<<>>, <<"p1">>, <<"p5", "p4">>}
  /\ files \in FilesAt(CurrentTime)
  /\ dirs = {f \in Folders : \E id \in ProgIDs : files[f][id] # "none"}
  /\ wg = 0
  /\ task = [id \in ProgIDs |-> NoTask]
  /\ loop = [pc |-> "top", s |-> 1, i |-> 0, todo |-> {}, processed |-> {},
             fetched |-> {}]
  /\ \E id \in ProgIDs \cup MalformedIDs : \E folder \in Folders :
       dl = [Call(id, folder) EXCEPT !.pc = "call"]
  /\ ext = 0
  /\ cands = {}
  /\ stopped = {}
  /\ main = "running"
  /\ sem = InitSem
  /\ job = [t \in TaskIDs |-> NoJob]
  /\ wk = [t \in TaskIDs |-> <<>>]
  /\ rm = NoQuery
  /\ cfg = NoConfig
  /\ mon = NoMon

NextDownload ==
  \/ DownloadEnter
  \/ HandleDuplicateCheck
  \/ MovePre
  \/ MoveFile
  \/ MoveFailed
  \/ FetchURI

SpecDownload == InitDownload /\ [][NextDownload]_vars

TypeOK ==
  /\ mode \in {"cli", "gui"}
  /\ rules \in RuleSets \cup GuiRuleSets \cup QueryRuleLists \cup ContentRuleLists
              \cup StationLists(MaxRules)
  /\ now \in Nat /\ CurrentTime \in Nat
  /\ NextFetchTime \in Nat \cup {NilTime}
  /\ \A k \in 1..Len(Schedules) : Schedules[k] \in ProgIDs \cup MalformedIDs
  /\ files \in [Folders -> [ProgIDs -> Content]]
  /\ dirs \subseteq Folders
  /\ wg \in Nat
  /\ \A id \in ProgIDs : task[id].pc \in {"idle", "running", "written"}
  /\ stopped \subseteq ProgIDs
  /\ main \in {"running", "signalled", "waited"}
  /\ \A g \in 1..Len(sem.d) : sem.d[g].n \in 0..sem.d[g].cap
  /\ \A g \in 1..Len(sem.e) : sem.e[g].n \in 0..sem.e[g].cap
  /\ \A t \in TaskIDs :
       /\ job[t].pc \in {"idle", "chunklist", "tempdir", "wait", "write",
                         "encoding", "blocked", "validate", "done"}
       /\ \A k \in 1..Len(wk[t]) :
            /\ wk[t][k].pc \in {"acquire", "load", "blocked", "done"}
            /\ wk[t][k].i \in 0..MaxRetryAttempts

\* ------------------------------------------------------------- properties
Min(S) == CHOOSE x \in S : \A y \in S : x <= y

\* the step is the part of Download that starts at its entry
EnterStep == dl.pc = "call" /\ dl'.pc # "call"

CalledProg == ProgByID(dl.p)

OtherFolders(folder) == collectConfiguredFolders(folder, rules) \ {folder}

\* C1: Download called for a program that is already in asset.Schedules and
\* whose start is not in the future returns nil and changes nothing: no
\* directory, no file, no task, no wait group increment, the same Schedules
C1_DuplicateNoEffect ==
  [][(/\ EnterStep
      /\ HasDuplicate(Schedules, dl.p)
      /\ ParseInLocation(CalledProg.Ft).ok
      /\ ~(CalledProg.Ft > CurrentTime))
     => (/\ dl'.pc = "returned" /\ dl'.ret = "nil"
         /\ UNCHANGED <<files, dirs, wg, task, Schedules, NextFetchTime>>)]_vars

C1_Witness ==
  /\ dl.pc = "returned" /\ dl.via = "duplicate"
  /\ HasDuplicate(Schedules, dl.p)

\* C2 as stated: after Download of a program that starts after CurrentTime,
\* whatever NextFetchTime was before, no task is started, no file is
\* produced and NextFetchTime is set and not earlier than the program's end
C2_Original ==
  [][(EnterStep /\ CalledProg.Ft > CurrentTime)
     => (/\ dl'.pc = "returned" /\ dl'.ret = "nil"
         /\ UNCHANGED <<files, wg, task>>
         /\ NextFetchTime' # NilTime
         /\ NextFetchTime' >= CalledProg.To)]_vars

\* C2 amended: after Download of a program that starts after CurrentTime no
\* task is started, no file is produced and NextFetchTime is set; it is the
\* program's end plus BufferMinutes when it was unset or later than the
\* program's end, and is left as it was (earlier than or equal to the
\* program's end) otherwise
C2_FutureProgram ==
  [][(EnterStep /\ CalledProg.Ft > CurrentTime)
     => (/\ dl'.pc = "returned" /\ dl'.ret = "nil"
         /\ UNCHANGED <<files, wg, task>>
         /\ NextFetchTime' # NilTime
         /\ IF NextFetchTime = NilTime \/ NextFetchTime > CalledProg.To
            THEN NextFetchTime' = CalledProg.To + BufferMinutes * Minute
            ELSE NextFetchTime' = NextFetchTime
                   /\ NextFetchTime' <= CalledProg.To)]_vars

C2_Witness ==
  /\ dl.pc = "returned" /\ dl.via = "future"
  /\ NextFetchTime # NilTime
  /\ NextFetchTime < CalledProg.To

\* C3: when the CLI loop starts to sleep, NextFetchTime is the earliest of
\* the wake times proposed in the iteration (end + BufferMinutes of every
\* future program, now + BufferMinutes of every undersized output)
C3_EarliestCandidate ==
  (mode = "cli" /\ loop.pc = "sleep" /\ cands # {})
    => NextFetchTime = Min(cands)

\* C4: setNextFetchTime sets NextFetchTime to the current time plus 24 hours
\* exactly when it is unset after the iteration and leaves a set time as it
\* is; so NextFetchTime is set after every runIteration
C4_SetNextFetchTime ==
  /\ [][(mode = "cli" /\ loop.pc = "stations" /\ loop'.pc = "sleep")
        => NextFetchTime' = IF NextFetchTime = NilTime
                            THEN now + OneDay * Hour
                            ELSE NextFetchTime]_vars
  /\ []((mode = "cli" /\ loop.pc = "sleep") => NextFetchTime # NilTime)

C4_Witness ==
  /\ mode = "cli" /\ loop.pc = "sleep"
  /\ NextFetchTime = now + OneDay * Hour

\* C5: if the output file exists in a configured rule folder other than the
\* target folder, Download stops: it requests no playlist URI and starts no
\* download task
C5_ExistsElsewhereStops ==
  (\E f \in OtherFolders(dl.folder) : dl.p # "" /\ IsExist(files, f, dl.p))
    => /\ dl.pc # "fetchURI"
       /\ ~(dl.pc = "returned" /\ dl.via \in {"started", "no_playlist"})

\* the file is only in the default folder and the rule folder is not empty
OnlyInDefault ==
  /\ dl.folder # ""
  /\ IsExist(files, "", dl.p)
  /\ \A f \in Folders \ {""} : ~IsExist(files, f, dl.p)

\* C6 as stated: when the output file exists only in the default folder and
\* the rule folder is not empty, the file is moved: it is at the target and
\* no longer in the default folder, and Download returns nil without a task
C6_Original ==
  [][(dl.pc = "moveFile" /\ dl'.pc # "moveFile" /\ OnlyInDefault)
     => (/\ files'[dl.folder][dl.p] = files[""][dl.p]
         /\ files'[""][dl.p] = "none"
         /\ dl'.pc = "returned" /\ dl'.ret = "nil"
         /\ UNCHANGED <<wg, task>>)]_vars

\* C6 amended: in that situation, when moveFile returns nil the file is at
\* the target and no longer in the default folder and Download returns nil
\* without starting a task; when moveFile fails the file is still in the
\* default folder, nothing is left at the target, no task is started, and
\* Download returns an error unless the target has appeared meanwhile
C6_MoveFromDefault ==
  [][/\ (dl.pc = "moveFile" /\ dl'.pc # "moveFile" /\ OnlyInDefault)
          => IF dl'.pc = "moveFailed"
             THEN UNCHANGED <<files, wg, task>>
             ELSE /\ files'[dl.folder][dl.p] = files[""][dl.p]
                  /\ files'[""][dl.p] = "none"
                  /\ dl'.pc = "returned" /\ dl'.ret = "nil"
                  /\ UNCHANGED <<wg, task>>
     /\ (dl.pc = "moveFailed" /\ dl'.pc # "moveFailed" /\ OnlyInDefault)
          => /\ dl'.pc = "returned" /\ dl'.ret = "err"
             /\ UNCHANGED <<files, wg, task>>]_vars

C6_Witness ==
  /\ dl.pc = "returned" /\ dl.via = "skip_after_move"
  /\ ~IsExist(files, "", dl.p) /\ files[dl.folder][dl.p] = "old"

\* C7: when the file is in the default folder and the target has appeared by
\* the time of the move (seen before the move or after moveFile failed), the
\* source in the default folder is discarded, the target is untouched, no
\* error is reported and no download is started
C7_TargetAppeared ==
  (dl.hd \in {"keep_both", "appeared"})
    => /\ ~IsExist(files, "", dl.p)
       /\ files[dl.folder][dl.p] = "ext"
       /\ dl.ret # "err"
       /\ dl.via # "started"

\* C8: on the filesystem that Download hands to handleDuplicate, for any
\* file, rule folder and rule set, if a call of handleDuplicate leaves the filesystem unchanged, a second call under
\* the same conditions returns the same decision, whatever order the two
\* calls visit the configured folders in
C8_HandleDuplicateIdempotent ==
  dl.pc = "handleDuplicate" =>
    \A id \in ProgIDs : \A cf \in Folders : \A fault \in Faults :
      \A o1, o2 \in Orders(collectConfiguredFolders(cf, rules)) :
        LET r1 == handleDuplicate(files, dirs, id, cf, rules, o1, fault)
            r2 == handleDuplicate(r1.files, dirs, id, cf, rules, o2, fault)
        IN r1.files = files => r2.err = r1.err /\ r2.files = files

C8_Witness ==
  /\ dl.pc = "fetchURI" /\ dl.hd = "exists"
  /\ Cardinality(collectConfiguredFolders(dl.folder, rules)) > 1
  /\ IsExist(files, "", dl.p)

\* C9: moveFile never loses the file: when it returns nil the content is at
\* dest and source is gone; when it returns an error the source is as it
\* was and no partially written destination is left (dest is as it was or
\* absent)
C9_MoveFileKeepsFile ==
  \A id \in ProgIDs : \A source, dest \in Folders :
    (source # dest /\ IsExist(files, source, id)) =>
      \A fault \in Faults :
        LET r == moveFile(files, dirs, source, dest, id, fault)
        IN IF r.err = "nil"
           THEN /\ r.files[dest][id] = files[source][id]
                /\ r.files[source][id] = "none"
           ELSE /\ r.files[source][id] = files[source][id]
                /\ r.files[dest][id] \in {files[dest][id], "none"}

C9_Witness ==
  /\ dl.pc = "moveFailed" /\ dl.fault \in {"open", "create", "copy", "remove"}
  /\ IsExist(files, "", dl.p)

\* C10: when the same output file exists in the default folder and at the
\* target in the configured folder, handleDuplicate returns no error and
\* changes nothing
C10_BothLocations ==
  \A id \in ProgIDs : \A cf \in Folders \ {""} :
    (IsExist(files, "", id) /\ IsExist(files, cf, id)) =>
      \A fault \in Faults :
        \A o \in Orders(collectConfiguredFolders(cf, rules)) :
          LET r == handleDuplicate(files, dirs, id, cf, rules, o, fault)
          IN r.err = "nil" /\ r.files = files

C10_Witness ==
  /\ dl.hd = "keep_both"
  /\ IsExist(files, "", dl.p) /\ IsExist(files, dl.folder, dl.p)

\* the program the CLI loop is at
CliProgram == WeeklyPrograms(AvailableStations[loop.s])[loop.i]

\* processStation handles program id in this step
CliHandles(id) ==
  /\ mode = "cli" /\ loop.pc = "stations" /\ loop.i > 0 /\ dl.pc = "idle"
  /\ loop.s <= Len(AvailableStations)
  /\ CliProgram.ID = id
  /\ (loop' # loop \/ dl' # dl)
  /\ FindMatch(rules, CliProgram.StationID, CliProgram, CurrentTime) # 0

\* processProgram handles program id in this step
GuiHandles(id) ==
  /\ mode = "gui" /\ loop.pc = "programs" /\ dl.pc = "idle"
  /\ id \in loop.todo /\ id \notin loop'.todo
  /\ FindMatch(rules, ProgByID(id).StationID, ProgByID(id), CurrentTime) # 0

\* C15: a matched program that the time gate or the size validation stopped
\* in one iteration is handed to Download again when a later iteration meets
\* it, and that call is not ended by the Schedules duplicate gate, in the CLI
\* loop and in the GUI loop alike
C15_RetriedLater ==
  [][/\ \A id \in stopped :
          (CliHandles(id) \/ GuiHandles(id))
            => (dl'.pc = "call" /\ dl'.p = id)
     /\ (EnterStep /\ dl.p \in stopped) => dl'.via # "duplicate"]_vars

\* C18: in the CLI loop the next fetch time is computed and the sleep begins
\* only when every download task of the iteration has finished; no task is
\* running when the next iteration reloads the configuration
C18_SleepAfterTasks ==
  (mode = "cli" /\ loop.pc \in {"sleep", "top"})
    => (wg = 0 /\ \A id \in ProgIDs : task[id].pc = "idle")

C18_Witness ==
  /\ mode = "cli" /\ loop.pc = "sleep"
  /\ \E f \in Folders : \E id \in ProgIDs : files[f][id] = "new"

\* C19: with done closed, run starts no iteration (no new asset, no station
\* processed) and leaves the sleep without waiting for NextFetchTime
C19_DoneChecked ==
  [][(mode = "cli" /\ main # "running")
       => /\ (loop.pc = "top" => loop'.pc \in {"top", "exit"})
          /\ (loop.pc = "top" =>
                UNCHANGED <<NextFetchTime, Schedules, CurrentTime>>)
          /\ ((loop.pc = "sleep" /\ loop' # loop) =>
                (now' = now /\ loop'.pc \in {"exit", "top"}))
          /\ (loop.pc = "exit" => loop' = loop)]_vars

C19_Witness ==
  /\ loop.pc = "exit" /\ main # "running"
  /\ now < NextFetchTime

\* C20: once main's final wg.Wait has returned no download task is in
\* flight: every task has finished and the run goroutine starts no more
C20_Drained ==
  (main = "waited") => (wg = 0 /\ \A id \in ProgIDs : task[id].pc = "idle")

\* a step of downloadProgram's task t in which the goroutine of segment k
\* starts an attempt
Attempt(t, k) ==
  /\ k \in 1..Len(wk[t]) /\ k \in 1..Len(wk'[t])
  /\ wk[t][k].pc = "acquire" /\ wk'[t][k].pc = "load"

\* a step in which bulkDownload of task t returns
BulkReturns(t) == job[t].pc = "wait" /\ job'[t].pc # "wait"

\* C11: bulkDownload attempts every segment at least once and at most
\* MaxRetryAttempts times and never again after the segment succeeded; it
\* returns "lack of aac files" exactly when some segment failed all its
\* attempts, nil for an empty list; after that error the task does not
\* concatenate and creates no output file.
C11_RetryAndReport ==
  [][\A t \in TaskIDs :
       /\ \A k \in 1..Len(wk[t]) :
            Attempt(t, k) =>
              /\ wk[t][k].i < MaxRetryAttempts
              /\ wk[t][k].i = 0 \/ wk[t][k].err # "nil"
       /\ BulkReturns(t) =>
            /\ \A k \in 1..Len(wk[t]) :
                 wk[t][k].i >= 1 /\ wk[t][k].i <= MaxRetryAttempts
            /\ job'[t].bulk \in {"nil", "lack of aac files"}
            /\ job'[t].bulk = "lack of aac files" <=>
                 \E k \in 1..Len(wk[t]) :
                   wk[t][k].i = MaxRetryAttempts /\ wk[t][k].err # "nil"
            /\ Len(job[t].list) = 0 => job'[t].bulk = "nil"
            /\ job'[t].bulk = "lack of aac files" =>
                 /\ job'[t].pc = "done" /\ job'[t].cat = <<>>
                 /\ files'[""][ProgOf(t)] = "none"
       /\ job[t].bulk = "lack of aac files" =>
            /\ job'[t] = job[t]
            /\ files'[""][ProgOf(t)] = files[""][ProgOf(t)]
  ]_vars

C11_Witness ==
  \E t \in TaskIDs :
    /\ job[t].pc = "done" /\ job[t].bulk = "lack of aac files"
    /\ files[""][ProgOf(t)] = "none"
    /\ \E u \in TaskIDs : job[u].pc = "done" /\ job[u].bulk = "nil"

\* the goroutines between the send on downloadingSem and the receive
Downloading ==
  {tk \in TaskIDs \X (1..Len(NameOrder)) :
     tk[2] <= Len(wk[tk[1]]) /\ wk[tk[1]][tk[2]].pc \in {"load", "blocked"}}

\* the tasks between the send on encodingSem and the receive
Encoding == {t \in TaskIDs : job[t].pc \in {"encoding", "blocked"}}

\* no InitSemaphores call has replaced a channel
FixedConfiguration == Len(sem.d) = 1 /\ Len(sem.e) = 1

\* C12: with a fixed configuration the segment downloads in progress never
\* exceed cap(downloadingSem) and the MP3 conversions in progress never exceed
\* cap(encodingSem); a task that waits for or holds an encoding slot holds no
\* download slot.
C12_PoolsBounded ==
  FixedConfiguration =>
    /\ Cardinality(Downloading) <= Cur(sem.d).cap
    /\ Cardinality(Downloading) = Cur(sem.d).n
    /\ Cardinality(Encoding) <= Cur(sem.e).cap
    /\ Cardinality(Encoding) = Cur(sem.e).n
    /\ \A t \in TaskIDs :
         (job[t].pc \in {"write", "encoding"}) =>
           \A tk \in Downloading : tk[1] # t

\* every download slot is taken and a goroutine waits for one
C12_Witness ==
  /\ FixedConfiguration
  /\ Cardinality(Downloading) = MaxDownloadingConcurrency
  /\ \E t \in TaskIDs : \E k \in 1..Len(wk[t]) : wk[t][k].pc = "acquire"

\* the goroutines that sent on the channel that is now current
OnCurrent == {tk \in Downloading : wk[tk[1]][tk[2]].g = Len(sem.d)
                                   /\ wk[tk[1]][tk[2]].pc = "load"}

\* C13: when InitSemaphores replaces a channel while downloads or conversions
\* are in flight, no slot is lost: no goroutine that holds a slot blocks on
\* its release, and the goroutines that took their slot after the resize are
\* bounded by the new capacity.
C13_NoSlotLost ==
  /\ \A t \in TaskIDs :
       /\ job[t].pc # "blocked"
       /\ \A k \in 1..Len(wk[t]) : wk[t][k].pc # "blocked"
  /\ Cardinality(OnCurrent) <= Cur(sem.d).cap

\* C14: in every outcome of the size check, a failed stat and a failed
\* removal included, an output file below the minimum size is never given
\* ID3 tags and never reported as saved.
C14_SmallNeverSaved ==
  \A t \in TaskIDs :
    files[""][ProgOf(t)] = "small" => ~job[t].tagged /\ ~job[t].saved

\* C16: the temporary segment directory a task made is removed when the task
\* ends, on every exit path after its creation; it exists only while the task
\* is between tempAACDir and its return.
C16_TempDirRemoved ==
  \A t \in TaskIDs :
    /\ job[t].pc = "done" => ~job[t].tmp /\ job[t].dir = NoDir
    /\ job[t].tmp =>
         job[t].pc \in {"wait", "write", "encoding", "blocked", "validate"}

\* one task returned after tagging its output, the other after bulkDownload
\* failed
C16_Witness ==
  \E t, u \in TaskIDs :
    /\ job[t].pc = "done" /\ job[t].saved
    /\ job[u].pc = "done" /\ job[u].bulk = "lack of aac files"

\* the files of the temporary directory of task t
SegmentFiles(t) == {n \in Names : job[t].dir[n] # "none"}

\* C17: after a successful bulkDownload the temporary directory holds exactly
\* one file per playlist segment and the files are concatenated in playlist
\* order, also when segment URIs share a base file name.
C17_OneFilePerSegment ==
  \A t \in TaskIDs :
    (job[t].bulk = "nil" /\ job[t].tmp) =>
      /\ Cardinality(SegmentFiles(t)) = Len(job[t].list)
      /\ job[t].cat = job[t].list

\* the window, day-of-week and station predicates of rule r hold for the
\* program of the query
StructuralPass(r) ==
  /\ MatchWindow(r, rm.p.Ft, CurrentTime)
  /\ MatchDoW(r, rm.p.Ft)
  /\ MatchStationID(r, rm.stationID)

ContentUnset(r) == ~HasTitle(r) /\ ~HasKeyword(r) /\ ~HasPfm(r)

\* C25: for a rule whose title, keyword and pfm are all empty, Match returns
\* true exactly when the window, day-of-week and station predicates pass.
C25_EmptyContentMatches ==
  rm.pc = "done" =>
    \A k \in 1..Len(rules) :
      ContentUnset(rules[k]) => (rm.m[k] <=> StructuralPass(rules[k]))

\* a rule without content predicates, with a window and a day list, matched
C25_Witness ==
  /\ rm.pc = "done"
  /\ ContentUnset(rules[1]) /\ HasWindow(rules[1]) /\ HasDoW(rules[1])
  /\ HasStationID(rules[1])
  /\ rm.m[1]

\* the window, day-of-week, station and content predicates of rule r all
\* hold for the program of the query
AllHold(r) ==
  /\ StructuralPass(r)
  /\ matchPfm(r, rm.p.Pfm) /\ matchTitle(r, rm.p.Title)
  /\ matchKeyword(r, rm.p)

\* C26: FindMatch returns the rule with the lowest index whose predicates all
\* hold, nil when there is none; HasMatch is true exactly when FindMatch is
\* not nil.
C26_FirstMatch ==
  rm.pc = "done" =>
    /\ rm.found \in 0..Len(rules)
    /\ rm.found = 0 <=> \A k \in 1..Len(rules) : ~AllHold(rules[k])
    /\ rm.found # 0 =>
         /\ AllHold(rules[rm.found])
         /\ \A j \in 1..(rm.found - 1) : ~AllHold(rules[j])
    /\ rm.has <=> rm.found # 0

\* two rules of the list match and the first one is returned
C26_Witness ==
  /\ rm.pc = "done"
  /\ Len(rules) >= 2
  /\ rm.found = 1 /\ rm.m[2] /\ rm.has

\* the predicates of rule r other than the window hold for the query
OthersHold(r) ==
  /\ MatchDoW(r, rm.p.Ft)
  /\ MatchStationID(r, rm.stationID)
  /\ matchPfm(r, rm.p.Pfm) /\ matchTitle(r, rm.p.Title)
  /\ matchKeyword(r, rm.p)

\* C27: for a rule with a window W and a program with start + W earlier than
\* CurrentTime, Match returns false whatever the other predicates are; a
\* program with start + W at or after CurrentTime is not excluded by the
\* window.
C27_WindowExcludes ==
  rm.pc = "done" =>
    \A k \in 1..Len(rules) :
      LET r == rules[k]
          W == ParseDuration(r.Window)
      IN (HasWindow(r) /\ W.ok /\ rm.p.Ft # BadTime) =>
           IF rm.p.Ft + W.d < CurrentTime
           THEN ~rm.m[k]
           ELSE rm.m[k] <=> OthersHold(r)

\* a program that started exactly one window before CurrentTime matched
C27_Witness ==
  /\ rm.pc = "done"
  /\ rules[1].Window = "1h"
  /\ rm.p.Ft + Hour = CurrentTime
  /\ rm.m[1]

\* the window of rule r is set and time.ParseDuration rejects it
WindowUnparsable(r) == HasWindow(r) /\ ~ParseDuration(r.Window).ok

\* C28: with a window string that cannot be parsed, MatchWindow behaves
\* exactly as with a window of 24 hours: a program started at most 24 hours
\* before CurrentTime passes, an older one (or an unparsable start) does not.
C28_FallbackIs24h ==
  rm.pc = "done" =>
    \A k \in 1..Len(rules) :
      LET r == rules[k]
      IN WindowUnparsable(r) =>
           /\ MatchWindow(r, rm.p.Ft, CurrentTime)
                 <=> (rm.p.Ft # BadTime /\ rm.p.Ft + 24 * Hour >= CurrentTime)
           /\ MatchWindow(r, rm.p.Ft, CurrentTime)
                 <=> MatchWindow([r EXCEPT !.Window = "24h"], rm.p.Ft, CurrentTime)
           /\ rm.m[k] <=> (MatchWindow(r, rm.p.Ft, CurrentTime) /\ OthersHold(r))

\* a rule with the window "abc" matched a program that started exactly 24
\* hours before CurrentTime
C28_Witness ==
  /\ rm.pc = "done"
  /\ rules[1].Window = "abc"
  /\ rm.p.Ft + 24 * Hour = CurrentTime
  /\ rm.m[1]

\* seven days, the window the README gives for "7d"
SevenDays == 7 * OneDay * Hour

\* C29: a rule with the window "7d" admits every program that started within
\* the last 7 days (168 hours) before CurrentTime and excludes older ones.
\* time.ParseDuration knows no unit "d", so the code falls back to 24 hours.
C29_SevenDayWindow ==
  rm.pc = "done" =>
    \A k \in 1..Len(rules) :
      (rules[k].Window = "7d" /\ rm.p.Ft # BadTime) =>
        (MatchWindow(rules[k], rm.p.Ft, CurrentTime)
           <=> rm.p.Ft + SevenDays >= CurrentTime)

\* the day codes of the dow table of MatchDoW
ValidDays == {"sun", "mon", "tue", "wed", "thu", "fri", "sat"}

\* C30: for a rule with a non-empty DoW list, MatchDoW is true exactly when
\* the weekday of the program start is one of the listed valid day codes; an
\* invalid string matches no weekday.  The lookup of an invalid string yields
\* the zero value time.Sunday, so it matches the programs of a Sunday.
C30_ValidDaysOnly ==
  rm.pc = "done" =>
    \A k \in 1..Len(rules) :
      LET r == rules[k]
      IN (HasDoW(r) /\ rm.p.Ft # BadTime) =>
           (MatchDoW(r, rm.p.Ft)
              <=> \E i \in 1..Len(r.DoW) :
                    /\ ToLower(r.DoW[i]) \in ValidDays
                    /\ DoWCode(ToLower(r.DoW[i])) = Weekday(rm.p.Ft))

\* the side effects of Download: the fetch time, the schedule, the tasks and
\* the files
Effects == <<NextFetchTime, Schedules, wg, task, files, dirs>>

\* C23: Download reports malformed times as errors and changes nothing: a
\* start that cannot be parsed gives 'invalid start time format', a future
\* program with an end that cannot be parsed gives 'invalid end time format';
\* NextFetchTime and Schedules stay as they were and no task is started.
C23_MalformedTimes ==
  [][dl.pc = "call" =>
       LET p == ProgByID(dl.p)
           badStart == p.Ft = BadTime
           badEnd == p.Ft # BadTime /\ p.Ft > CurrentTime /\ p.To = BadTime
       IN (badStart \/ badEnd) =>
            /\ dl'.pc = "returned"
            /\ dl'.ret = "err"
            /\ dl'.via = IF badStart THEN "bad_start" ELSE "bad_end"
            /\ UNCHANGED Effects]_vars

\* a call for the future program with the malformed end has returned its
\* error, in a session that holds a fetch time and a schedule
C23_Witness ==
  /\ dl.pc = "returned" /\ dl.p = "p5"
  /\ dl.ret = "err" /\ dl.via = "bad_end"
  /\ NextFetchTime # NilTime /\ Schedules # <<>>

\* C21: a failed or interrupted writeOutputFile leaves no file at the final
\* output path, so that a later Download does not skip the program as
\* already existing.  The MP3 conversion writes the final path directly and
\* its partial output stays when ffmpeg fails or is killed by the
\* cancellation of the context.
C21_NoPartialOutput ==
  \A t \in TaskIDs :
    (job[t].pc = "done" /\ job[t].werr) => ~IsExist(files, "", ProgOf(t))

\* the station the loop is at has a rule, so that its programs are fetched
StationWatched ==
  HasRuleWithoutStationID(rules)
    \/ HasRuleForStationID(rules, AvailableStations[loop.s])

\* the loop is still in processStations, at the program after the current
\* one, or at the next station when there is none
LoopGoesOn ==
  /\ loop'.pc = "stations"
  /\ IF loop.i < Len(WeeklyPrograms(AvailableStations[loop.s]))
     THEN loop'.s = loop.s /\ loop'.i = loop.i + 1
     ELSE loop'.s = loop.s + 1 /\ loop'.i = 0

\* C22: no single failure stops the loop.  When FetchWeeklyPrograms fails,
\* Download is not called for the station and the next station is processed;
\* when Download returns an error, the next program is processed; when a
\* task fails, the other tasks are left as they are and the wait group is
\* released.
C22_FailureIsLocal ==
  [][/\ (mode = "cli" /\ loop.pc = "stations" /\ loop.i = 0
           /\ loop.s <= Len(AvailableStations) /\ StationWatched
           /\ loop'.i = 0 /\ loop' # loop)
        => (loop'.pc = "stations" /\ loop'.s = loop.s + 1 /\ dl' = NoCall
              /\ UNCHANGED <<wg, task, main>>)
     /\ (mode = "cli" /\ dl.pc = "returned" /\ dl.ret = "err" /\ dl' # dl)
        => (dl' = NoCall /\ LoopGoesOn /\ UNCHANGED <<wg, task, main>>)
     /\ \A id \in ProgIDs :
          (task[id].pc = "running" /\ task'[id] = NoTask)
            => /\ wg' = wg - 1
               /\ \A other \in ProgIDs \ {id} : task'[other] = task[other]
               /\ UNCHANGED <<loop, dl, main>>]_vars

\* Download has returned an error to the program loop while the task of
\* another program is in flight
C22_Witness ==
  /\ mode = "cli"
  /\ dl.pc = "returned" /\ dl.ret = "err"
  /\ loop.pc = "stations"
  /\ \E id \in ProgIDs \ {dl.p} : task[id].pc = "running"

\* the locks held at each access to asset.NextFetchTime: the mutex a.mu is a
\* field of the GUI App and the radikron package takes no lock.  "validate"
\* is the assignment in validateAndCleanupOutputFile (part_000 lines
\* 420-421), "future" the update in Download (lines 157-161), "logSleep" the
\* read in logAndSleepUntilNextFetch (app.go lines 426-428), "sleep" the
\* reads in sleepUntilNextFetch (app.go lines 439-440)
Held(access) ==
  CASE access = "validate" -> {}
    [] access = "future" -> {}
    [] access = "logSleep" -> {"mu"}
    [] access = "sleep" -> {}

\* the accesses a download task can make next: it writes the field when the
\* output file is too small
TaskAccesses ==
  IF \E id \in ProgIDs :
       task[id].pc = "written" /\ files[task[id].folder][id] = "small"
  THEN {"validate"} ELSE {}

\* the accesses the loop can make next: Download writes the field for a
\* program in the future, the GUI loop reads it when it goes to sleep
LoopAccesses ==
  (IF dl.pc = "call" /\ Gate(ProgByID(dl.p), Schedules, CurrentTime) = "future"
   THEN {"future"} ELSE {})
  \cup
  (IF mode = "gui" /\ loop.pc = "programs" /\ loop.todo = {} /\ dl.pc = "idle"
   THEN {"logSleep", "sleep"} ELSE {})

\* C24: every access of concurrent tasks to the mutable fields of the session
\* is protected by the lock: a task never writes asset.NextFetchTime while
\* the loop reads or writes the field, unless both hold the lock.  The write
\* of the task and the read before the sleep hold no lock.
C24_LockProtected ==
  \A a \in TaskAccesses : \A b \in LoopAccesses : Held(a) \cap Held(b) # {}

\* the keyword of rule r is a part of one of the fields of the program
KeywordInField(r) ==
  \/ Contains(rm.p.Title, r.Keyword)
  \/ Contains(rm.p.Pfm, r.Keyword)
  \/ Contains(rm.p.Info, r.Keyword)
  \/ Contains(rm.p.Desc, r.Keyword)
  \/ \E i \in 1..Len(rm.p.Tags) : Contains(rm.p.Tags[i], r.Keyword)

TitleHolds(r) == r.Title = <<>> \/ Contains(rm.p.Title, r.Title)
PfmHolds(r) == r.Pfm = <<>> \/ Contains(rm.p.Pfm, r.Pfm)
KeywordHolds(r) == r.Keyword = <<>> \/ KeywordInField(r)

\* C31: the keyword predicate of a rule with a keyword holds exactly when the
\* keyword is a substring of the title, the performer, the info, the
\* description or a tag; the title and performer predicates hold exactly
\* when unset or a substring of their field; Match requires all three.
C31_ContentPredicates ==
  rm.pc = "done" =>
    \A k \in 1..Len(rules) :
      LET r == rules[k] IN
        /\ HasKeyword(r) => (matchKeyword(r, rm.p) <=> KeywordInField(r))
        /\ matchTitle(r, rm.p.Title) <=> TitleHolds(r)
        /\ matchPfm(r, rm.p.Pfm) <=> PfmHolds(r)
        /\ rm.m[k] <=> /\ StructuralPass(r)
                       /\ TitleHolds(r) /\ PfmHolds(r) /\ KeywordHolds(r)

\* a rule matched a program that holds its keyword in a tag only
C31_Witness ==
  /\ rm.pc = "done"
  /\ HasKeyword(rules[1]) /\ HasTitle(rules[1])
  /\ ~Contains(rm.p.Title, rules[1].Keyword)
  /\ ~Contains(rm.p.Pfm, rules[1].Keyword)
  /\ ~Contains(rm.p.Info, rules[1].Keyword)
  /\ ~Contains(rm.p.Desc, rules[1].Keyword)
  /\ rm.m[1]

\* C32: FindMatchSilent returns the same rule as FindMatch and MatchSilent the
\* same boolean as Match, for every rule list, station and program; the
\* variants differ in the lines they log only.
C32_SilentSameResult ==
  rm.pc = "done" =>
    /\ rm.foundSilent = rm.found
    /\ \A k \in 1..Len(rules) : rm.ms[k] = rm.m[k]
    /\ Len(rm.logSilent) <= Len(rm.log)

\* both variants passed over the first rule and found the second, and only
\* FindMatch logged
C32_Witness ==
  /\ rm.pc = "done"
  /\ rm.found = 2 /\ rm.foundSilent = 2
  /\ ~rm.m[1] /\ ~rm.ms[1]
  /\ rm.log # <<>> /\ rm.logSilent = <<>>

\* processStation has been entered for station k in this iteration
Entered(k) == k < loop.s \/ (k = loop.s /\ loop.i > 0)

\* some rule accepts the station
SomeRuleAccepts(stationID) ==
  \E r \in 1..Len(rules) : MatchStationID(rules[r], stationID)

\* C33: processStation skips a station, with no call of FetchWeeklyPrograms
\* and none of Download, exactly when no rule can match it: when it skips,
\* MatchStationID is false for every rule, and when a rule has an empty or
\* "*" station or names the station, the programs are fetched.
C33_SkipsUnmatchedOnly ==
  (mode = "cli" /\ loop.pc = "stations") =>
    /\ \A k \in 1..Len(AvailableStations) :
         /\ k \in loop.fetched => Entered(k)
         /\ Entered(k) =>
              (k \in loop.fetched <=> SomeRuleAccepts(AvailableStations[k]))
    /\ dl.pc # "idle" => loop.s \in loop.fetched

\* the iteration is over: the first station was fetched and the second one
\* skipped, under rules that name stations only
C33_Witness ==
  /\ mode = "cli" /\ loop.pc = "stations"
  /\ loop.s > Len(AvailableStations)
  /\ Len(rules) = 2
  /\ loop.fetched = {1}

\* how often station x is in the list q
Count(x, q) == Cardinality({k \in 1..Len(q) : q[k] = x})

\* C34: after Config.ApplyToAsset no station of ignore-stations is in
\* asset.AvailableStations, whatever the area stations, the extra stations
\* and the rules are, and the station of every rule that is not ignored is
\* in the list exactly once.  The stations of the rules are added after the
\* ignored ones were removed, so a rule brings an ignored station back.
C34_IgnoredStationsAbsent ==
  cfg.pc = "done" =>
    /\ \A k \in 1..Len(cfg.ignore) : ~InSeq(cfg.ignore[k], cfg.stations)
    /\ \A r \in 1..Len(rules) :
         (HasStationID(rules[r]) /\ ~InSeq(rules[r].StationID, cfg.ignore))
           => Count(rules[r].StationID, cfg.stations) = 1

\* the events of a download in the order of the interface, with and without
\* the encoding to MP3
EventOrder ==
  {<<"DownloadStarted", "DownloadCompleted", "FileSaved">>,
   <<"DownloadStarted", "DownloadCompleted", "EncodingStarted",
     "EncodingCompleted", "FileSaved">>}

IsPrefix(e, q) == Len(e) <= Len(q) /\ \A k \in 1..Len(e) : e[k] = q[k]

\* the output file of the task is on the disk at output.AbsPath()
Written(t) == files[""][ProgOf(t)] \in {"new", "small"}

\* C35: the events of a download come in the order DownloadStarted,
\* DownloadCompleted, EncodingStarted and EncodingCompleted for MP3,
\* FileSaved; when DownloadCompleted was emitted and the task goes on to
\* write the output, the file is on the disk at the reported path; FileSaved
\* is only emitted for a file that is there, large enough and tagged.
\* downloadProgram emits DownloadCompleted after bulkDownload, before the
\* chunks are joined and the output file is written.
C35_EventsInOrder ==
  \A t \in TaskIDs :
    /\ \E q \in EventOrder : IsPrefix(job[t].ev, q)
    /\ job[t].pc = "write" => Written(t)
    /\ job[t].saved => job[t].tagged /\ files[""][ProgOf(t)] = "new"

\* the download tasks started and not yet returned
InFlight == Cardinality({id \in ProgIDs : task[id].pc # "idle"})

\* C36: the wait group counts the tasks in flight.  Every step leaves the
\* counter equal to the number of tasks started and not yet returned, and
\* never negative; it goes up by one exactly in the step of Download that
\* starts a task and down by one exactly in a step in which a task returns;
\* and wg.Wait of main returns only when no started task is left.
C36_WaitGroupCounts ==
  [][/\ wg' = InFlight' /\ wg' >= 0
     /\ wg' \in {wg - 1, wg, wg + 1}
     /\ (wg' = wg + 1) <=>
          (/\ dl.pc = "fetchURI"
           /\ \E id \in ProgIDs :
                task[id].pc = "idle" /\ task'[id].pc = "running")
     /\ (wg' = wg - 1) <=>
          (\E id \in ProgIDs : task[id].pc # "idle" /\ task'[id].pc = "idle")
     /\ (main = "signalled" /\ main' = "waited") => InFlight = 0]_vars

\* two tasks are in flight, one of them past writing its output file
C36_Witness ==
  /\ wg = 2
  /\ \E id \in ProgIDs : task[id].pc = "written"
  /\ \E id \in ProgIDs : task[id].pc = "running"

\* the output file of the program is in no folder
InNoFolder(id) == \A f \in Folders : files[f][id] = "none"

\* C37: in the GUI loop a program that a rule matches, whose start is in the
\* past and whose output file is in no folder, leads to a started download
\* task: Download, called by processProgram for it, does not leave by its
\* duplicate check because of the Schedules entry processProgram added.
\* processProgram appends the program to asset.Schedules before the call and
\* Download looks the program up in the same list.
C37_GuiDownloadStarts ==
  (/\ mode = "gui" /\ dl.pc = "returned"
   /\ ParseInLocation(ProgByID(dl.p).Ft).ok
   /\ ParseInLocation(ProgByID(dl.p).Ft).t <= CurrentTime
   /\ InNoFolder(dl.p))
    => dl.via # "duplicate"

\* the IDs of the programs in asset.Schedules
Scheduled(sched) == {sched[k] : k \in 1..Len(sched)}

NoTwoEntries(sched) ==
  \A i, j \in 1..Len(sched) : sched[i] = sched[j] => i = j

\* processProgram is called for the program and returns without calling
\* Download
Passed(id) ==
  /\ loop.pc = "programs" /\ id \in loop.todo /\ id \notin loop'.todo
  /\ dl'.pc # "call"

\* C38: in the GUI asset.Schedules never holds two entries of one ID;
\* Download is called at most once per program ID in a run, because it is
\* called only for a program that is not in Schedules, the call leaves the
\* program in Schedules, and no entry for which Download was called is taken
\* out again; and a program that no rule matches is not in Schedules after
\* processProgram returned.
C38_SchedulesDistinct ==
  [][mode = "gui" =>
       /\ NoTwoEntries(Schedules')
       /\ Scheduled(Schedules) \subseteq Scheduled(Schedules')
       /\ (dl.pc = "idle" /\ dl'.pc = "call") =>
            /\ dl'.p \notin Scheduled(Schedules)
            /\ dl'.p \in Scheduled(Schedules')
       /\ \A id \in ProgIDs :
            (/\ Passed(id)
             /\ FindMatchSilent(rules, ProgByID(id).StationID, ProgByID(id),
                                CurrentTime) = 0)
              => (id \in Scheduled(Schedules') <=> id \in Scheduled(Schedules))]_vars

\* in a later iteration a program for which Download was called is in
\* Schedules and processProgram has passed it by, and a program that no rule
\* matches has been processed and is not in Schedules
C38_Witness ==
  /\ mode = "gui" /\ loop.pc = "programs" /\ dl.pc = "idle"
  /\ \E id \in Scheduled(Schedules) :
       id \notin loop.todo /\ id \notin loop.processed
  /\ \E id \in ProgIDs :
       /\ id \notin loop.todo /\ id \notin Scheduled(Schedules)
       /\ ProgByID(id).StationID \in
            {AvailableStations[k] : k \in WatchedStations}
       /\ FindMatchSilent(rules, ProgByID(id).StationID, ProgByID(id),
                          CurrentTime) = 0

\* the loop has a step to take: it is not waiting for a.mu
LoopRuns ==
  \/ ENABLED GuiTop
  \/ ENABLED GuiProcessProgram
  \/ ENABLED DownloadEnter
  \/ ENABLED GuiDownloadReturn
  \/ ENABLED GuiSleep
  \/ ENABLED GuiExit

\* C39: StopMonitoring, called while the loop runs, returns; wherever the
\* loop is when StopMonitoring waits for monitorDone, the loop goes on to
\* observe the cancellation and to close monitorDone, because StopMonitoring
\* holds no lock the loop needs.  StopMonitoring holds a.mu from its first
\* line to its return, and the loop takes a.mu in reloadConfigIfNeeded, in
\* processProgram and before it sleeps.
C39_StopReturns ==
  (mon.stop = "waiting" /\ ~mon.done) => LoopRuns

\* C40: the GUI keeps one asset across its iterations, and every iteration is
\* followed by a sleep that ends later than the iteration started: a
\* NextFetchTime that has passed is replaced by a later one, so one iteration
\* does not follow another at once.  Nothing in the monitoring loop resets
\* asset.NextFetchTime, and sleepUntilNextFetch returns at once when the time
\* is not in the future.
C40_SleepBetweenIterations ==
  [][(mode = "gui" /\ ~mon.cancelled
      /\ loop.pc = "programs" /\ loop'.pc = "top")
       => /\ NextFetchTime = NilTime \/ NextFetchTime > CurrentTime
          /\ now' > CurrentTime]_vars
====
